---- MODULE Spec2Model ----
(***************************************************************************)
(* Model of the e4 client key material library: the protection framing     *)
(* (crypto/crypto.go), the validators (crypto/validators.go) and the       *)
(* public-key key material of package keys.                                *)
(*                                                                         *)
(* Byte buffers are sequences over Byte.  A byte has BitsPerByte bits, so  *)
(* that the 8-byte little-endian timestamp fits the model checker's        *)
(* integers; every width computed from it (the unsigned wrap, the sign     *)
(* bit) scales with it.  Time is counted in ticks, TicksPerSecond to the   *)
(* second: time.Now() has sub-second resolution while the wire carries     *)
(* whole Unix seconds.                                                     *)
(***************************************************************************)
EXTENDS Integers, Sequences, FiniteSets, TLC

VARIABLES now, frame, last, k, heap, mu

vars == <<now, frame, last, k, heap, mu>>

-----------------------------------------------------------------------------
(* Sizes *)

BitsPerByte == 2

TicksPerSecond == 2

MaxDelaySeconds == 1

TimestampLen == 8

TagLen == 16

KeyLen == 32

IDLen == 16

Ed25519PrivateKeySize == 64

Ed25519PublicKeySize == 32

Curve25519KeySize == 32

Pow2(n) == IF n = 0 THEN 1 ELSE 2 ^ n

ByteBase == Pow2(BitsPerByte)

Byte == 0 .. (ByteBase - 1)

\* 2^64 of the source: the number of values of a TimestampLen-byte unsigned.
UintRange == Pow2(BitsPerByte * TimestampLen)

\* MaxDelayDuration is a time.Duration; here in ticks.
MaxDelayDuration == MaxDelaySeconds * TicksPerSecond

\* MaxDelayKeyTransition is the longer window, for key transitions; in ticks.
MaxDelayKeyTransition == (MaxDelaySeconds + 1) * TicksPerSecond

\* The clock readings of the model: enough seconds for a frame to leave the
\* replay window by more than a second.
MaxNow == (MaxDelaySeconds + 2) * TicksPerSecond - 1

ClockReadings == 0 .. MaxNow

-----------------------------------------------------------------------------
(* Byte helpers *)

Bytes(n, b) == [i \in 1 .. n |-> b]

\* bytes.Equal(zero, key) for a zero buffer of len(key) bytes
AllZero(s) == \A i \in 1 .. Len(s) : s[i] = 0

Take(s, n) == SubSeq(s, 1, n)

Drop(s, n) == SubSeq(s, n + 1, Len(s))

FlipBit(b, i) == IF (b \div Pow2(i)) % 2 = 1 THEN b - Pow2(i) ELSE b + Pow2(i)

FlipBitAt(buf, pos, i) == [buf EXCEPT ![pos] = FlipBit(buf[pos], i)]

RECURSIVE SumSeq(_)
SumSeq(s) == IF s = <<>> THEN 0 ELSE s[1] + SumSeq(Tail(s))

\* binary.BigEndian.PutUint64
PutUint64BigEndian(v) ==
    [i \in 1 .. TimestampLen |-> (v \div (ByteBase ^ (TimestampLen - i))) % ByteBase]

\* binary.LittleEndian.PutUint64
PutUint64(v) == [i \in 1 .. TimestampLen |-> (v \div (ByteBase ^ (i - 1))) % ByteBase]

\* binary.LittleEndian.Uint64
RECURSIVE Uint64(_)
Uint64(b) == IF b = <<>> THEN 0 ELSE b[1] + ByteBase * Uint64(Tail(b))

\* uint64(x) of a signed x
ToUint64(x) == x % UintRange

\* int64(v) of an unsigned v: the top bit is the sign
ToInt64(v) == IF v >= UintRange \div 2 THEN v - UintRange ELSE v

\* time.Time.Unix(): whole seconds of a clock reading
Unix(clk) == clk \div TicksPerSecond

\* time.Unix(sec, 0) as a clock reading
TimeUnix(sec) == sec * TicksPerSecond

\* the readings of a peer's clock: the model's whole seconds
PeerReadings == {TimeUnix(s) : s \in 0 .. Unix(MaxNow)}

Ok(out) == [out |-> out, err |-> "nil"]

Fail(err) == [out |-> <<>>, err |-> err]

-----------------------------------------------------------------------------
(* crypto/validators.go *)

\* ValidateSymKey without its all-zero test
ValidateSymKeyLengthOnly(key) == IF Len(key) # KeyLen THEN "ErrInvalidKeyLen" ELSE "nil"

ValidateSymKey(key) ==
    IF Len(key) # KeyLen THEN "ErrInvalidKeyLen"
    ELSE IF key = Bytes(KeyLen, 0) THEN "ErrKeyAllZero"
    ELSE "nil"

\* ValidateEd25519PrivKey without the comparison with the all-zero key
ValidateEd25519PrivKeyLengthOnly(key) ==
    IF Len(key) # Ed25519PrivateKeySize THEN "ErrInvalidKeyLen" ELSE "nil"

ValidateEd25519PrivKey(key) ==
    IF Len(key) # Ed25519PrivateKeySize THEN "ErrInvalidKeyLen"
    ELSE IF key = Bytes(Ed25519PrivateKeySize, 0) THEN "ErrKeyAllZero"
    ELSE "nil"

\* ValidateEd25519PubKey without its all-zero test
ValidateEd25519PubKeyLengthOnly(key) ==
    IF Len(key) # Ed25519PublicKeySize THEN "ErrInvalidKeyLen" ELSE "nil"

ValidateEd25519PubKey(key) ==
    IF Len(key) # Ed25519PublicKeySize THEN "ErrInvalidKeyLen"
    ELSE IF key = Bytes(Ed25519PublicKeySize, 0) THEN "ErrKeyAllZero"
    ELSE "nil"

ValidateCurve25519PubKey(key) ==
    IF Len(key) # Curve25519KeySize THEN "ErrInvalidKeyLen"
    ELSE IF key = Bytes(Curve25519KeySize, 0) THEN "ErrKeyAllZero"
    ELSE "nil"

\* ValidateID without the length check
ValidateIDAnyLength(id) == "nil"

ValidateID(id) == IF Len(id) # IDLen THEN "ErrInvalidIDLen" ELSE "nil"

\* ValidateTimestamp with no delay allowed
ValidateTimestampNoDelay(timestamp, clk) ==
    LET tsTime == TimeUnix(ToInt64(Uint64(timestamp)))
    IN  IF tsTime > clk THEN "ErrTimestampInFuture"
        ELSE IF tsTime < clk THEN "ErrTimestampTooOld"
        ELSE "nil"

\* ValidateTimestamp without its lower end
ValidateTimestampFutureOnly(timestamp, clk) ==
    IF TimeUnix(ToInt64(Uint64(timestamp))) > clk THEN "ErrTimestampInFuture" ELSE "nil"

\* ValidateTimestamp at clock reading clk (the value time.Now() returns).
ValidateTimestamp(timestamp, clk) ==
    LET tsTime  == TimeUnix(ToInt64(Uint64(timestamp)))
        minTime == clk - MaxDelayDuration
    IN  IF tsTime > clk THEN "ErrTimestampInFuture"
        ELSE IF tsTime < minTime THEN "ErrTimestampTooOld"
        ELSE "nil"

\* ValidateTimestampKey at clock reading clk.
ValidateTimestampKey(timestamp, clk) ==
    LET tsTime  == TimeUnix(ToInt64(Uint64(timestamp)))
        minTime == clk - MaxDelayDuration
    IN  IF tsTime > clk THEN "ErrTimestampInFuture"
        ELSE IF tsTime < minTime THEN "ErrTimestampTooOld"
        ELSE "nil"

-----------------------------------------------------------------------------
(* The AES-CMAC-SIV primitive of the miscreant library, which is not part    *)
(* of the repository.  It is abstracted as a deterministic SIV scheme: the   *)
(* synthetic IV V = S2V(macKey, ad, pt) is TagLen bytes and comes first, the *)
(* ciphertext is the plaintext under a keystream of (ctrKey, V).  S2V keeps  *)
(* the key, the associated data and the plaintext in separate bytes of V, so *)
(* that, as for a secure MAC, no single-byte change of any of them leaves V  *)
(* unchanged.                                                                *)

Overhead == TagLen

AdSlots == TimestampLen

KeySlots == (TagLen - AdSlots) \div 2

PtSlots == TagLen - AdSlots - KeySlots

\* the bytes of s at the positions congruent to slot modulo n, summed
Fold(s, slot, n) ==
    SumSeq([j \in 1 .. ((Len(s) + n - slot) \div n) |-> s[slot + (j - 1) * n]]) % ByteBase

S2V(macKey, ad, pt) ==
    [i \in 1 .. TagLen |->
        IF i <= KeySlots THEN Fold(macKey, i, KeySlots)
        ELSE IF i <= KeySlots + AdSlots THEN Fold(ad, i - KeySlots, AdSlots)
        ELSE IF i = TagLen THEN Len(pt) % ByteBase
        ELSE Fold(pt, i - KeySlots - AdSlots, PtSlots - 1)]

KeyStream(ctrKey, v, i) == (ctrKey[((i - 1) % Len(ctrKey)) + 1] + v[1] + i) % ByteBase

\* miscreant.NewAESCMACSIV: the key is two AES keys of 16 or 32 bytes
NewAESCMACSIV(doublekey) ==
    IF Len(doublekey) \in {32, 64}
    THEN [macKey |-> Take(doublekey, Len(doublekey) \div 2),
          ctrKey |-> Drop(doublekey, Len(doublekey) \div 2), err |-> "nil"]
    ELSE [macKey |-> <<>>, ctrKey |-> <<>>, err |-> "ErrKeySize"]

\* Seal that returns one byte less than it should
SealTruncated(c, pt, ad) ==
    LET v == S2V(c.macKey, ad, pt)
        sealed == v \o [i \in 1 .. Len(pt) |-> (pt[i] + KeyStream(c.ctrKey, v, i)) % ByteBase]
    IN  Ok(Take(sealed, Len(sealed) - 1))

Seal(c, pt, ad) ==
    LET v == S2V(c.macKey, ad, pt)
    IN  Ok(v \o [i \in 1 .. Len(pt) |-> (pt[i] + KeyStream(c.ctrKey, v, i)) % ByteBase])

Open(c, ct, ad) ==
    IF Len(ct) < Overhead THEN Fail("ErrNotAuthentic")
    ELSE LET v  == Take(ct, TagLen)
             cc == Drop(ct, TagLen)
             pt == [i \in 1 .. Len(cc) |->
                        (cc[i] + ByteBase - KeyStream(c.ctrKey, v, i)) % ByteBase]
         IN  IF S2V(c.macKey, ad, pt) = v THEN Ok(pt) ELSE Fail("ErrNotAuthentic")

-----------------------------------------------------------------------------
(* crypto/crypto.go *)

\* The backing array buf of the caller's slice key = buf[:n:cap] after
\* append(key, key...): with capacity for it the copy is written behind the
\* key, without it a new array is allocated and buf is left alone.
AppendToItself(buf, n, cap) ==
    IF cap >= 2 * n THEN Take(buf, n) \o Take(buf, n) \o Drop(buf, 2 * n) ELSE buf

\* What Encrypt leaves in the backing array of its key
EncryptKeyBuffer(buf, n, cap) ==
    IF ValidateSymKey(Take(buf, n)) # "nil" THEN buf ELSE AppendToItself(buf, n, cap)

\* What Decrypt leaves in the backing array of its key: as Encrypt, it
\* validates the key and appends it to itself.
DecryptKeyBuffer(buf, n, cap) ==
    IF ValidateSymKey(Take(buf, n)) # "nil" THEN buf ELSE AppendToItself(buf, n, cap)

\* rand.Read(b) on a source that delivers the first n bytes of stream: the
\* bytes land at the start of b, the rest of b stays zero, and the error is nil
\* exactly when all of b was filled.
RandRead(len, stream, n) ==
    [b   |-> Take(stream, n) \o Bytes(len - n, 0),
     n   |-> n,
     err |-> IF n < len THEN "ErrUnexpectedEOF" ELSE "nil"]

\* RandomKey as first defined: the results of rand.Read are dropped
RandomKeyUnchecked(stream, n) == Ok(RandRead(KeyLen, stream, n).b)

\* RandomID as first defined
RandomIDUnchecked(stream, n) == Ok(RandRead(IDLen, stream, n).b)

\* RandomKey as defined last: a failed or short read panics
RandomKey(stream, n) ==
    LET r == RandRead(KeyLen, stream, n)
    IN  IF r.err # "nil" THEN Fail("panic")
        ELSE IF r.n # KeyLen THEN Fail("panic")
        ELSE Ok(r.b)

\* RandomID as defined last
RandomID(stream, n) ==
    LET r == RandRead(IDLen, stream, n)
    IN  IF r.err # "nil" THEN Fail("panic")
        ELSE IF r.n # IDLen THEN Fail("panic")
        ELSE Ok(r.b)

Encrypt(key, ad, pt) ==
    IF ValidateSymKey(key) # "nil" THEN Fail(ValidateSymKey(key))
    ELSE LET doublekey == key \o key
             c == NewAESCMACSIV(doublekey)
         IN  IF c.err # "nil" THEN Fail(c.err) ELSE Seal(c, pt, ad)

Decrypt(key, ad, ct) ==
    IF ValidateSymKey(key) # "nil" THEN Fail(ValidateSymKey(key))
    ELSE LET doublekey == key \o key
             c == NewAESCMACSIV(doublekey)
         IN  IF c.err # "nil" THEN Fail(c.err)
             ELSE IF Len(ct) < Overhead THEN Fail("ErrShortCiphertext")
             ELSE Open(c, ct, ad)

\* ProtectSymKey at clock reading clk
ProtectSymKey(payload, key, clk) ==
    LET timestamp == PutUint64(ToUint64(Unix(clk)))
        e == Encrypt(key, timestamp, payload)
        protected == timestamp \o e.out
    IN  IF e.err # "nil" THEN Fail(e.err)
        ELSE IF TimestampLen + Len(payload) + TagLen # Len(protected)
             THEN Fail("ErrInvalidProtectedLen")
        ELSE Ok(protected)

\* UnprotectSymKey that hands the whole buffer, timestamp included, to Decrypt
UnprotectSymKeyWholeBuffer(protected, key, clk) ==
    IF Len(protected) <= TimestampLen + TagLen THEN Fail("ErrTooShortCipher")
    ELSE LET timestamp == Take(protected, TimestampLen)
         IN  IF ValidateTimestamp(timestamp, clk) # "nil"
             THEN Fail(ValidateTimestamp(timestamp, clk))
             ELSE Decrypt(key, timestamp, protected)

\* UnprotectSymKey that validates the key before it looks at the buffer
UnprotectSymKeyKeyFirst(protected, key, clk) ==
    IF ValidateSymKey(key) # "nil" THEN Fail(ValidateSymKey(key))
    ELSE IF Len(protected) <= TimestampLen + TagLen THEN Fail("ErrTooShortCipher")
    ELSE LET ct == Drop(protected, TimestampLen)
             timestamp == Take(protected, TimestampLen)
         IN  IF ValidateTimestamp(timestamp, clk) # "nil"
             THEN Fail(ValidateTimestamp(timestamp, clk))
             ELSE Decrypt(key, timestamp, ct)

\* UnprotectSymKey at clock reading clk
UnprotectSymKey(protected, key, clk) ==
    IF Len(protected) <= TimestampLen + TagLen THEN Fail("ErrTooShortCipher")
    ELSE LET ct == Drop(protected, TimestampLen)
             timestamp == Take(protected, TimestampLen)
         IN  IF ValidateTimestamp(timestamp, clk) # "nil"
             THEN Fail(ValidateTimestamp(timestamp, clk))
             ELSE Decrypt(key, timestamp, ct)

-----------------------------------------------------------------------------
(* The public-key primitives.  Ed25519, Curve25519 and SHA-3 come from       *)
(* libraries outside the repository; they are abstracted by a small          *)
(* Diffie-Hellman group (the integers modulo 23 under multiplication,        *)
(* generated by 5) and byte-wise digests.  An Ed25519 private key is         *)
(* seed || public key, as ed25519.NewKeyFromSeed lays it out.                *)

Ed25519SeedSize == Ed25519PrivateKeySize - Ed25519PublicKeySize

Ed25519SignatureSize == 64

RECURSIVE PowMod(_, _, _)
PowMod(b, e, m) == IF e = 0 THEN 1 % m ELSE (b * PowMod(b, e - 1, m)) % m

GroupExp(b, e) == PowMod(b % 23, e, 23)

RECURSIVE Digits(_, _)
Digits(n, len) == IF len = 0 THEN <<>> ELSE <<n % ByteBase>> \o Digits(n \div ByteBase, len - 1)

\* the group element or scalar a byte string stands for
RECURSIVE Number(_, _)
Number(b, m) == IF b = <<>> THEN 0 ELSE (b[1] + ByteBase * Number(Tail(b), m)) % m

Reverse(s) == [i \in 1 .. Len(s) |-> s[Len(s) + 1 - i]]

\* the secret scalar an Ed25519 seed hashes to (never 0, never the group order)
SeedScalar(seed) == 1 + (SumSeq(seed) % 21)

\* curve25519.ScalarMult(dst, scalar, point)
ScalarMult(scalar, point) ==
    Digits(GroupExp(Number(point, 23), Number(scalar, 22)), Curve25519KeySize)

\* curve25519.ScalarBaseMult
ScalarBaseMult(scalar) == Digits(GroupExp(5, Number(scalar, 22)), Curve25519KeySize)

\* PrivateEd25519KeyToCurve25519 (extra25519.PrivateKeyToCurve25519)
PrivateEd25519KeyToCurve25519(edPrivKey) ==
    Digits(SeedScalar(Take(edPrivKey, Ed25519SeedSize)), Curve25519KeySize)

\* PublicEd25519KeyToCurve25519 (extra25519.PublicKeyToCurve25519): the same
\* point in the other coordinates
PublicEd25519KeyToCurve25519(edPubKey) == Reverse(edPubKey)

\* ed25519.NewKeyFromSeed
NewKeyFromSeed(seed) ==
    seed \o Reverse(Digits(GroupExp(5, SeedScalar(seed)), Ed25519PublicKeySize))

\* ed25519.PrivateKey.Public()
Ed25519Public(edPrivKey) == Drop(edPrivKey, Ed25519SeedSize)

\* The signature of message under the key pair of public key pub: it can be
\* checked with pub alone, and changes with every byte of pub and of message.
Signature(pub, message) ==
    [i \in 1 .. Ed25519SignatureSize |->
        IF i <= Ed25519PublicKeySize THEN (pub[i] + i) % ByteBase
        ELSE IF i = Ed25519SignatureSize THEN Len(message) % ByteBase
        ELSE Fold(message, i - Ed25519PublicKeySize,
                  Ed25519SignatureSize - Ed25519PublicKeySize - 1)]

\* ed25519.Sign
Sign(edPrivKey, message) == Signature(Ed25519Public(edPrivKey), message)

\* ed25519.Verify
Verify(edPubKey, message, sig) ==
    /\ Len(edPubKey) = Ed25519PublicKeySize
    /\ sig = Signature(edPubKey, message)

\* Sha3Sum256: a 32-byte digest
Sha3Sum256(data) ==
    [i \in 1 .. 32 |-> ((IF i <= Len(data) THEN data[i] ELSE 0) + i) % ByteBase]

\* ProtectCommandPubKey(command, clientPubKey, secretKey) at clock reading clk
ProtectCommandPubKey(command, clientPubKey, secretKey, clk) ==
    LET shared == ScalarMult(secretKey, clientPubKey)
        key == Take(Sha3Sum256(shared), KeyLen)
    IN  ProtectSymKey(command, key, clk)

-----------------------------------------------------------------------------
(* The public-key key material (package keys).  An instance is a record     *)
(*   SignerID, C2PubKey  byte strings                                        *)
(*   PrivateKey          the address of the buffer its slice points to       *)
(*   PubKeys             the store: a set of entries [id, key]               *)
(* and the operations take the clock reading where they read time.Now().     *)

NewPubKeyMaterial(signerID, privateKey, c2PubKey) ==
    IF ValidateID(signerID) # "nil" THEN [err |-> ValidateID(signerID)]
    ELSE IF ValidateEd25519PrivKey(privateKey) # "nil"
         THEN [err |-> ValidateEd25519PrivKey(privateKey)]
    ELSE [err |-> "nil", SignerID |-> signerID, PrivateKey |-> "own",
          C2PubKey |-> c2PubKey, PubKeys |-> {}]

EntriesOf(pubKeys, id) == {e \in pubKeys : e.id = id}

\* GetPubKeys: the store as a map from id to key
GetPubKeys(pubKeys) ==
    [id \in {e.id : e \in pubKeys} |-> (CHOOSE e \in EntriesOf(pubKeys, id) : TRUE).key]

GetPubKey(pubKeys, id) ==
    IF EntriesOf(pubKeys, id) = {} THEN Fail("ErrPubKeyNotFound")
    ELSE Ok(GetPubKeys(pubKeys)[id])

\* AddPubKey that adds the entry and leaves an older one for the id in place
AddPubKeyAppends(pubKeys, id, key) ==
    IF ValidateEd25519PubKey(key) # "nil"
    THEN [PubKeys |-> pubKeys, err |-> ValidateEd25519PubKey(key)]
    ELSE [PubKeys |-> pubKeys \cup {[id |-> id, key |-> key]}, err |-> "nil"]

AddPubKey(pubKeys, id, key) ==
    IF ValidateEd25519PubKey(key) # "nil"
    THEN [PubKeys |-> pubKeys, err |-> ValidateEd25519PubKey(key)]
    ELSE [PubKeys |-> (pubKeys \ EntriesOf(pubKeys, id)) \cup {[id |-> id, key |-> key]},
          err |-> "nil"]

\* RemovePubKey as a plain delete(map, id): no error for an absent id
RemovePubKeySilent(pubKeys, id) ==
    [PubKeys |-> pubKeys \ EntriesOf(pubKeys, id), err |-> "nil"]

RemovePubKey(pubKeys, id) ==
    IF EntriesOf(pubKeys, id) = {} THEN [PubKeys |-> pubKeys, err |-> "ErrPubKeyNotFound"]
    ELSE [PubKeys |-> pubKeys \ EntriesOf(pubKeys, id), err |-> "nil"]

\* ResetPubKeys that leaves one entry behind
ResetPubKeysLeavesOne(pubKeys) ==
    IF pubKeys = {} THEN {} ELSE {CHOOSE e \in pubKeys : TRUE}

ResetPubKeys(pubKeys) == {}

\* SetKey that keeps the caller's slice instead of copying it
SetKeyAliases(inst, h, key) ==
    IF ValidateEd25519PrivKey(h[key]) # "nil"
    THEN [k |-> inst, heap |-> h, err |-> ValidateEd25519PrivKey(h[key])]
    ELSE [k |-> [inst EXCEPT !.PrivateKey = key], heap |-> h, err |-> "nil"]

\* SetKey(key) with the caller's slice pointing at the buffer at address key
SetKey(inst, h, key) ==
    IF ValidateEd25519PrivKey(h[key]) # "nil"
    THEN [k |-> inst, heap |-> h, err |-> ValidateEd25519PrivKey(h[key])]
    ELSE [k |-> [inst EXCEPT !.PrivateKey = "own"],
          heap |-> [h EXCEPT !.own = h[key]],
          err |-> "nil"]

\* ProtectMessage of the instance with this signer ID and private key
ProtectMessage(signerID, privateKey, payload, topicKey, clk) ==
    LET sig == Sign(privateKey, payload)
    IN  ProtectSymKey(signerID \o sig \o payload, topicKey, clk)

UnprotectMessage(pubKeys, protected, topicKey, clk) ==
    LET r == UnprotectSymKey(protected, topicKey, clk)
    IN  IF r.err # "nil" THEN Fail(r.err)
        ELSE IF Len(r.out) < IDLen + Ed25519SignatureSize THEN Fail("ErrTooShortCipher")
        ELSE LET signerID == Take(r.out, IDLen)
                 sig == SubSeq(r.out, IDLen + 1, IDLen + Ed25519SignatureSize)
                 payload == Drop(r.out, IDLen + Ed25519SignatureSize)
                 pk == GetPubKey(pubKeys, signerID)
             IN  IF pk.err # "nil" THEN Fail("ErrPubKeyNotFound")
                 ELSE IF ~Verify(pk.out, payload, sig) THEN Fail("ErrInvalidSignature")
                 ELSE Ok(payload)

UnprotectCommand(privateKey, c2PubKey, protected, clk) ==
    LET curveSk == PrivateEd25519KeyToCurve25519(privateKey)
        shared == ScalarMult(curveSk, c2PubKey)
        key == Take(Sha3Sum256(shared), KeyLen)
    IN  UnprotectSymKey(protected, key, clk)

-----------------------------------------------------------------------------
(* The persistence codec (package keys, json.go).  A JSON text is modelled    *)
(* by the value it denotes: null, an integer literal, a number literal that   *)
(* is not an integer, a string, an object (a function from its field names    *)
(* to values), or a text that is not JSON at all.  Byte slices are written as *)
(* encoding/json writes them, as base64 strings: three bytes become four      *)
(* digits, an incomplete last group is padded.  With BitsPerByte-bit bytes    *)
(* the digits are those of the smallest base in which four digits hold three  *)
(* bytes.  The encoding of the variants' data is not part of the sources and  *)
(* follows the snapshot the specification describes.                          *)

JNull == [t |-> "null", v |-> <<>>]

JNumber(n) == [t |-> "number", v |-> n]

JFraction == [t |-> "fraction", v |-> <<>>]

JString(str) == [t |-> "string", v |-> str]

JObject(fields) == [t |-> "object", v |-> fields]

Malformed == [t |-> "malformed", v |-> <<>>]

\* base of the digits of the base64 alphabet
DigitBase == CHOOSE c \in 1 .. ByteBase :
                 /\ c * c * c * c >= ByteBase * ByteBase * ByteBase
                 /\ (c - 1) * (c - 1) * (c - 1) * (c - 1) < ByteBase * ByteBase * ByteBase

\* the padding character
Padding == DigitBase

RECURSIVE RadixDigits(_, _, _)
\* the len digits of n in the given base, most significant first
RadixDigits(n, len, base) ==
    IF len = 0 THEN <<>>
    ELSE Append(RadixDigits(n \div base, len - 1, base), n % base)

RECURSIVE RadixNumber(_, _)
RadixNumber(digits, base) ==
    IF digits = <<>> THEN 0
    ELSE RadixNumber(Take(digits, Len(digits) - 1), base) * base + digits[Len(digits)]

RECURSIVE EncodeToString(_)
\* base64.StdEncoding.EncodeToString
EncodeToString(b) ==
    IF b = <<>> THEN <<>>
    ELSE LET n == IF Len(b) < 3 THEN Len(b) ELSE 3
         IN  RadixDigits(RadixNumber(Take(b, n), ByteBase), n + 1, DigitBase)
                 \o [i \in 1 .. (3 - n) |-> Padding]
                 \o EncodeToString(Drop(b, n))

RECURSIVE DecodeString(_)
\* base64.StdEncoding.DecodeString
DecodeString(str) ==
    IF str = <<>> THEN Ok(<<>>)
    ELSE IF Len(str) < 4 THEN Fail("CorruptInputError")
    ELSE LET group == Take(str, 4)
             pad == IF group[3] = Padding /\ group[4] = Padding THEN 2
                    ELSE IF group[4] = Padding THEN 1 ELSE 0
             digits == Take(group, 4 - pad)
             n == 3 - pad
             rest == DecodeString(Drop(str, 4))
         IN  IF \E i \in 1 .. Len(digits) : digits[i] >= DigitBase
             THEN Fail("CorruptInputError")
             ELSE IF pad > 0 /\ Len(str) > 4 THEN Fail("CorruptInputError")
             ELSE IF RadixNumber(digits, DigitBase) >= Pow2(BitsPerByte * n)
             THEN Fail("CorruptInputError")
             ELSE IF rest.err # "nil" THEN rest
             ELSE Ok(RadixDigits(RadixNumber(digits, DigitBase), n, ByteBase) \o rest.out)

\* the variants' tags
symKeyMaterialType == 0

pubKeyMaterialType == 1

\* instances by value
SymKeyMaterial(key) == [variant |-> "symKeyMaterial", Key |-> key]

PubKeyMaterial(signerID, privateKey, c2PubKey, pubKeys) ==
    [variant |-> "pubKeyMaterial", SignerID |-> signerID, PrivateKey |-> privateKey,
     C2PubKey |-> c2PubKey, PubKeys |-> pubKeys]

\* json.Unmarshal of a []byte field
UnmarshalBytes(data) ==
    IF data.t = "null" THEN Ok(<<>>)
    ELSE IF data.t # "string" THEN Fail("UnmarshalTypeError")
    ELSE DecodeString(data.v)

\* the variant payload of a symmetric instance
MarshalSymKeyData(inst) == JObject([Key |-> JString(EncodeToString(inst.Key))])

\* the variant payload of a public-key instance
MarshalPubKeyData(inst) ==
    JObject([SignerID |-> JString(EncodeToString(inst.SignerID)),
             PrivateKey |-> JString(EncodeToString(inst.PrivateKey)),
             C2PubKey |-> JString(EncodeToString(inst.C2PubKey)),
             PubKeys |-> JObject([name \in {EncodeToString(e.id) : e \in inst.PubKeys} |->
                            JString(EncodeToString(
                               (CHOOSE e \in inst.PubKeys : EncodeToString(e.id) = name).key))])])

\* MarshalJSON of an instance: the envelope of tag and payload
MarshalJSON(inst) ==
    IF inst.variant = "symKeyMaterial"
    THEN JObject([keyType |-> JNumber(symKeyMaterialType), keyData |-> MarshalSymKeyData(inst)])
    ELSE JObject([keyType |-> JNumber(pubKeyMaterialType), keyData |-> MarshalPubKeyData(inst)])

\* json.Unmarshal(keyData, &symKeyMaterial{})
UnmarshalSymKeyData(data) ==
    IF data.t # "object" THEN Fail("UnmarshalTypeError")
    ELSE IF "Key" \notin DOMAIN data.v THEN Fail("ErrMissingField")
    ELSE LET key == UnmarshalBytes(data.v.Key)
         IN  IF key.err # "nil" THEN key ELSE Ok(SymKeyMaterial(key.out))

\* json.Unmarshal(keyData, &pubKeyMaterial{})
UnmarshalPubKeyData(data) ==
    IF data.t # "object" THEN Fail("UnmarshalTypeError")
    ELSE IF ~({"SignerID", "PrivateKey", "C2PubKey", "PubKeys"} \subseteq DOMAIN data.v)
         THEN Fail("ErrMissingField")
    ELSE LET signerID == UnmarshalBytes(data.v.SignerID)
             privateKey == UnmarshalBytes(data.v.PrivateKey)
             c2PubKey == UnmarshalBytes(data.v.C2PubKey)
             store == data.v.PubKeys
         IN  IF signerID.err # "nil" THEN signerID
             ELSE IF privateKey.err # "nil" THEN privateKey
             ELSE IF c2PubKey.err # "nil" THEN c2PubKey
             ELSE IF store.t # "object" THEN Fail("UnmarshalTypeError")
             ELSE IF \E name \in DOMAIN store.v :
                         \/ DecodeString(name).err # "nil"
                         \/ UnmarshalBytes(store.v[name]).err # "nil"
                  THEN Fail("CorruptInputError")
             ELSE Ok(PubKeyMaterial(signerID.out, privateKey.out, c2PubKey.out,
                        {[id |-> DecodeString(name).out,
                          key |-> UnmarshalBytes(store.v[name]).out] :
                             name \in DOMAIN store.v}))

\* json.Unmarshal(raw, &m) with m a map[string]json.RawMessage: null leaves
\* the map empty
UnmarshalMap(raw) ==
    IF raw.t = "malformed" THEN Fail("SyntaxError")
    ELSE IF raw.t = "null" THEN Ok(<<>>)
    ELSE IF raw.t # "object" THEN Fail("UnmarshalTypeError")
    ELSE Ok(raw.v)

\* json.Unmarshal(data, &t) with t a keyType (an int) holding zero: null
\* leaves t as it is and is no error
UnmarshalKeyType(data, zero) ==
    IF data.t = "number" THEN Ok(data.v)
    ELSE IF data.t = "null" THEN Ok(zero)
    ELSE Fail("UnmarshalTypeError")

\* FromRawJSON with tag 0 read as the public-key variant and tag 1 as the
\* symmetric one
FromRawJSONSwapped(raw) ==
    LET m == UnmarshalMap(raw)
    IN  IF m.err # "nil" THEN Fail(m.err)
        ELSE IF "keyType" \notin DOMAIN m.out THEN Fail("ErrExpectedKeyType")
        ELSE IF "keyData" \notin DOMAIN m.out THEN Fail("ErrExpectedKeyData")
        ELSE LET t == UnmarshalKeyType(m.out.keyType, 0)
             IN  IF t.err # "nil" THEN Fail(t.err)
                 ELSE IF t.out = pubKeyMaterialType THEN UnmarshalSymKeyData(m.out.keyData)
                 ELSE IF t.out = symKeyMaterialType THEN UnmarshalPubKeyData(m.out.keyData)
                 ELSE Fail("ErrUnsupportedKeyType")

FromRawJSON(raw) ==
    LET m == UnmarshalMap(raw)
    IN  IF m.err # "nil" THEN Fail(m.err)
        ELSE IF "keyType" \notin DOMAIN m.out THEN Fail("ErrExpectedKeyType")
        ELSE IF "keyData" \notin DOMAIN m.out THEN Fail("ErrExpectedKeyData")
        ELSE LET t == UnmarshalKeyType(m.out.keyType, 0)
             IN  IF t.err # "nil" THEN Fail(t.err)
                 ELSE IF t.out = symKeyMaterialType THEN UnmarshalSymKeyData(m.out.keyData)
                 ELSE IF t.out = pubKeyMaterialType THEN UnmarshalPubKeyData(m.out.keyData)
                 ELSE Fail("ErrUnsupportedKeyType")

-----------------------------------------------------------------------------
(* Inputs of the model *)

KeyA == [i \in 1 .. KeyLen |-> IF i = 1 THEN 1 ELSE 0]

KeyB == [i \in 1 .. KeyLen |-> IF i = KeyLen THEN 1 ELSE 0]

ZeroKey == Bytes(KeyLen, 0)

ShortKey == Bytes(KeyLen - 1, 1)

ValidSymKeys == {KeyA, KeyB}

SymKeys == ValidSymKeys \cup {ZeroKey, ShortKey}

Payloads == {<<>>, <<2, 3>>}

\* Timestamps an attacker may write into a frame: the seconds of the model's
\* clock, one beyond, and the two extremes of the values with the top bit set.
ForgedTimestamps == (0 .. (Unix(MaxNow) + 1)) \cup {UintRange \div 2, UintRange - 1}

\* Timestamps given to the validators: those, and the values next to the top
\* bit and to the end of the range.
TimestampInputs ==
    ForgedTimestamps \cup {UintRange \div 2 - 1, UintRange \div 2 + 1, UintRange - 2}

Seed(a, b) == [i \in 1 .. Ed25519SeedSize |-> IF i = 1 THEN a ELSE IF i = 2 THEN b ELSE 0]

\* the clients' Ed25519 keys
PrivA == NewKeyFromSeed(Seed(1, 0))

PrivB == NewKeyFromSeed(Seed(2, 0))

\* the controllers' Ed25519 keys
PrivC == NewKeyFromSeed(Seed(3, 1))

PrivD == NewKeyFromSeed(Seed(3, 3))

ZeroPriv == Bytes(Ed25519PrivateKeySize, 0)

NotAKey == <<1, 2, 3>>

IdA == [i \in 1 .. IDLen |-> IF i = 1 THEN 1 ELSE 0]

IdB == [i \in 1 .. IDLen |-> IF i = 1 THEN 2 ELSE 0]

Ids == {IdA, IdB}

\* make([]byte, IDLen-1)
ShortId == Bytes(IDLen - 1, 0)

\* the clients that protect messages: signer ID and private key
Signers == {[SignerID |-> IdA, PrivateKey |-> PrivA], [SignerID |-> IdB, PrivateKey |-> PrivB]}

\* what a caller of SetKey puts in its buffer
CallerKeys == {PrivB, ZeroPriv, NotAKey}

PubKeyInputs == {Ed25519Public(PrivA), Ed25519Public(PrivB), NotAKey}

\* what the random source holds: KeyLen bytes, none of them zero
RandomStreams == {[i \in 1 .. KeyLen |-> 1 + ((a + i) % (ByteBase - 1))] : a \in {0, 1}}

\* zeroEd25519pk
ZeroPub == Bytes(Ed25519PublicKeySize, 0)

\* ids of every length: those, a shorter one, a longer one, the empty one
AnyLengthIds == Ids \cup {ShortId, IdA \o <<1>>, <<>>}

\* keys passed to AddPubKey, the all-zero one among them
AnyPubKeyInputs == PubKeyInputs \cup {ZeroPub}

\* values written where a snapshot has its tag: the two tags, other integers,
\* null, a number that is not an integer, a string
KeyTypeInputs == {"0", "1", "2", "-1", "null", "1.5", "string"}

KeyTypeValue(text) ==
    CASE text = "0" -> JNumber(symKeyMaterialType)
      [] text = "1" -> JNumber(pubKeyMaterialType)
      [] text = "2" -> JNumber(2)
      [] text = "-1" -> JNumber(-1)
      [] text = "null" -> JNull
      [] text = "1.5" -> JFraction
      [] text = "string" -> JString(<<1>>)

\* texts written in place of a whole snapshot
RawInputs == {"{}", "null", "1", "malformed"}

RawValue(text) ==
    CASE text = "{}" -> JObject(<<>>)
      [] text = "null" -> JNull
      [] text = "1" -> JNumber(1)
      [] text = "malformed" -> Malformed

-----------------------------------------------------------------------------
(* State.                                                                    *)
(*   now    the clock reading time.Now() returns to the instance             *)
(*   frame  the protected buffer in flight, with what it was made from       *)
(*   last   the last call, what it returned, and the instance before it      *)
(*   k      the public-key key material instance                             *)
(*   heap   the byte buffers behind the slices: own is the instance's, caller *)
(*          the one a caller passes to SetKey or slices a key from, and      *)
(*          keeps; given records what                                        *)
(*          the caller's buffer held when a key was last accepted            *)
(*   mu     the lock of the instance and the two goroutines that use the     *)
(*          instance at the same time, one mutating it, one reading it       *)

\* kind: none, sym, flipped, retimed, msg or cmd; buf: the bytes; payload, key,
\* at: what was protected, under which key, at which reading of the peer's
\* clock; signer, spub: the signer's ID and public key (messages only)
NoFrame ==
    [kind |-> "none", buf |-> <<>>, payload |-> <<>>, key |-> <<>>, at |-> 0,
     signer |-> <<>>, spub |-> <<>>]

SymFrame(kind, buf, payload, key, clk) ==
    [kind |-> kind, buf |-> buf, payload |-> payload, key |-> key, at |-> clk,
     signer |-> <<>>, spub |-> <<>>]

\* the timestamp the frame in flight carries, as ValidateTimestamp reads it
FrameTimestamp == ToInt64(Uint64(Take(frame.buf, TimestampLen)))

PrivateKeyBytes == heap[k.PrivateKey]

\* what an instance holds, the private key by value
InstanceState ==
    [SignerID |-> k.SignerID, PrivateKey |-> PrivateKeyBytes, C2PubKey |-> k.C2PubKey,
     PubKeys |-> k.PubKeys]

\* pre: the instance before the call
Call(op, arg, r) ==
    [op |-> op, arg |-> arg, out |-> r.out, err |-> r.err, pre |-> InstanceState]

NoCall == [op |-> "none", arg |-> <<>>, out |-> <<>>, err |-> "nil", pre |-> <<>>]

\* what the mutations write and the readers read: the private key and the store
Secrets == [PrivateKey |-> PrivateKeyBytes, PubKeys |-> k.PubKeys]

NoSecrets == [PrivateKey |-> <<>>, PubKeys |-> {}]

\* writer: idle or writing, its call wop, the instance before and the one it
\* is to leave; reader: idle, locked, half or done, its call rop, what it
\* has read so far; commits: the instances left by the calls completed since
\* the reader started, with the one it found
Unlocked ==
    [writer |-> "idle", wop |-> "none", before |-> NoSecrets, target |-> NoSecrets,
     reader |-> "idle", rop |-> "none", obs |-> NoSecrets, commits |-> {}]

\* the reader holds the lock for reading
ReaderHolds(m) == m.reader \in {"locked", "half"}

\* Lock(): no reader and no writer hold the lock
CanLock(m) == m.writer = "idle" /\ ~ReaderHolds(m)

\* RLock without a lock to wait for
CanRLockAlways(m) == TRUE

\* RLock(): no writer holds the lock
CanRLock(m) == m.writer = "idle"

\* the calls that mutate the instance and those that read it
MutatingCalls == {"SetKey", "AddPubKey", "RemovePubKey", "ResetPubKeys"}

ReadingCalls == {"ProtectMessage", "UnprotectMessage", "UnprotectCommand", "GetPubKey", "MarshalJSON"}

\* what a mutating call is to leave in the instance
Targets(call) ==
    CASE call = "SetKey" ->
             {LET r == SetKey(k, [heap EXCEPT !.caller = key], "caller")
              IN  [PrivateKey |-> r.heap[r.k.PrivateKey], PubKeys |-> r.k.PubKeys] :
                  key \in CallerKeys \cup {PrivA}}
      [] call = "AddPubKey" ->
             {[PrivateKey |-> PrivateKeyBytes, PubKeys |-> AddPubKey(k.PubKeys, id, key).PubKeys] :
                  id \in Ids, key \in PubKeyInputs}
      [] call = "RemovePubKey" ->
             {[PrivateKey |-> PrivateKeyBytes, PubKeys |-> RemovePubKey(k.PubKeys, id).PubKeys] :
                  id \in Ids}
      [] call = "ResetPubKeys" ->
             {[PrivateKey |-> PrivateKeyBytes, PubKeys |-> ResetPubKeys(k.PubKeys)]}

\* copy(dst, src) one half at a time
CopyStep(dst, src) ==
    IF Len(dst) # Len(src) THEN src
    ELSE IF Take(dst, Len(src) \div 2) # Take(src, Len(src) \div 2)
         THEN Take(src, Len(src) \div 2) \o Drop(dst, Len(src) \div 2)
         ELSE src

Init ==
    /\ now = 0
    /\ frame = NoFrame
    /\ last = NoCall
    /\ mu = Unlocked
    /\ LET made == NewPubKeyMaterial(IdA, PrivA, PublicEd25519KeyToCurve25519(Ed25519Public(PrivC)))
       IN  k = [SignerID |-> made.SignerID, PrivateKey |-> made.PrivateKey,
                C2PubKey |-> made.C2PubKey, PubKeys |-> made.PubKeys]
    /\ heap = [own |-> PrivA, caller |-> PrivB, given |-> PrivA]

\* the clock advances
Tick ==
    /\ now < MaxNow
    /\ now' = now + 1
    /\ last' = NoCall
    /\ UNCHANGED <<mu, frame, k, heap>>

\* ValidateTimestamp is called with eight bytes.
DoValidateTimestamp ==
    /\ \E t \in TimestampInputs :
          last' = Call("ValidateTimestamp", PutUint64(t),
                       [out |-> <<>>, err |-> ValidateTimestamp(PutUint64(t), now)])
    /\ UNCHANGED <<mu, now, frame, k, heap>>

\* ValidateTimestampKey is called with eight bytes.
DoValidateTimestampKey ==
    /\ \E t \in TimestampInputs :
          last' = Call("ValidateTimestampKey", PutUint64(t),
                       [out |-> <<>>, err |-> ValidateTimestampKey(PutUint64(t), now)])
    /\ UNCHANGED <<mu, now, frame, k, heap>>

\* Time passes between two calls on the same buffer: the clock advances and
\* the verdict of the call before stays on record.
ClockAdvances ==
    /\ now < MaxNow
    /\ now' = now + 1
    /\ UNCHANGED <<mu, frame, last, k, heap>>

\* The frame in flight is delivered or lost.
DropFrame ==
    /\ frame.kind # "none"
    /\ frame' = NoFrame
    /\ last' = NoCall
    /\ UNCHANGED <<mu, now, k, heap>>

\* A peer whose clock reads clk calls ProtectSymKey(payload, key).
DoProtectSymKey ==
    /\ frame.kind = "none"
    /\ \E payload \in Payloads, key \in SymKeys, clk \in PeerReadings \cup {now} :
        LET r == ProtectSymKey(payload, key, clk)
        IN  /\ last' = Call("ProtectSymKey", key, r)
            /\ frame' = IF r.err = "nil" THEN SymFrame("sym", r.out, payload, key, clk)
                        ELSE NoFrame
            /\ UNCHANGED <<mu, now, k, heap>>

\* The caller protects a payload under the key its buffer starts with, the
\* slice it passes having capacity for the key alone or for the whole buffer.
DoProtectWithOwnBuffer ==
    /\ frame.kind = "none"
    /\ Len(heap.caller) >= 2 * KeyLen
    /\ \E payload \in Payloads, cap \in {KeyLen, Len(heap.caller)} :
        LET key == Take(heap.caller, KeyLen)
            r == ProtectSymKey(payload, key, now)
        IN  /\ last' = Call("ProtectSymKey", key, r)
            /\ frame' = IF r.err = "nil" THEN SymFrame("sym", r.out, payload, key, now)
                        ELSE NoFrame
            /\ heap' = [heap EXCEPT !.caller = EncryptKeyBuffer(@, KeyLen, cap)]
    /\ UNCHANGED <<mu, now, k>>

\* The network flips one bit of the ciphertext or of the tag.
FlipFrameBit ==
    /\ frame.kind = "sym"
    /\ \E pos \in (TimestampLen + 1) .. Len(frame.buf), bit \in 0 .. (BitsPerByte - 1) :
          frame' = [frame EXCEPT !.kind = "flipped", !.buf = FlipBitAt(frame.buf, pos, bit)]
    /\ last' = NoCall
    /\ UNCHANGED <<mu, now, k, heap>>

\* The network replaces the timestamp.
Retime ==
    /\ frame.kind = "sym"
    /\ \E t \in ForgedTimestamps :
          /\ PutUint64(t) # Take(frame.buf, TimestampLen)
          /\ frame' = [frame EXCEPT !.kind = "retimed",
                                    !.buf = PutUint64(t) \o Drop(frame.buf, TimestampLen)]
    /\ last' = NoCall
    /\ UNCHANGED <<mu, now, k, heap>>

\* UnprotectSymKey(frame, key) is called at the clock reading now.
DoUnprotectSymKey ==
    /\ frame.kind \in {"sym", "flipped", "retimed"}
    /\ \E key \in ValidSymKeys \cup {ZeroKey} :
          last' = Call("UnprotectSymKey", key, UnprotectSymKey(frame.buf, key, now))
    /\ UNCHANGED <<mu, now, frame, k, heap>>

\* Encrypt(key, ad, pt) with the timestamp of now as associated data
DoEncrypt ==
    /\ frame.kind = "none"
    /\ \E key \in SymKeys, pt \in Payloads :
          last' = Call("Encrypt", key, Encrypt(key, PutUint64(ToUint64(Unix(now))), pt))
    /\ UNCHANGED <<mu, now, frame, k, heap>>

\* Decrypt(key, ad, ct) on the parts of the frame in flight
\* Encrypt is called with a key that is a slice of the caller's buffer, of
\* capacity KeyLen or of the capacity of the whole buffer.
DoEncryptWithOwnBuffer ==
    /\ frame.kind = "none"
    /\ Len(heap.caller) >= 2 * KeyLen
    /\ \E pt \in Payloads, cap \in {KeyLen, Len(heap.caller)} :
        LET key == Take(heap.caller, KeyLen)
        IN  /\ last' = Call("Encrypt", key, Encrypt(key, PutUint64(ToUint64(Unix(now))), pt))
            /\ heap' = [heap EXCEPT !.caller = EncryptKeyBuffer(@, KeyLen, cap)]
    /\ UNCHANGED <<mu, now, frame, k>>

\* Decrypt is called with such a key.
DoDecryptWithOwnBuffer ==
    /\ frame.kind = "sym"
    /\ Len(heap.caller) >= 2 * KeyLen
    /\ \E cap \in {KeyLen, Len(heap.caller)} :
        LET key == Take(heap.caller, KeyLen)
        IN  /\ last' = Call("Decrypt", key,
                            Decrypt(key, Take(frame.buf, TimestampLen),
                                    Drop(frame.buf, TimestampLen)))
            /\ heap' = [heap EXCEPT !.caller = DecryptKeyBuffer(@, KeyLen, cap)]
    /\ UNCHANGED <<mu, now, frame, k>>

DoDecrypt ==
    /\ frame.kind = "sym"
    /\ \E key \in SymKeys :
          last' = Call("Decrypt", key,
                       Decrypt(key, Take(frame.buf, TimestampLen), Drop(frame.buf, TimestampLen)))
    /\ UNCHANGED <<mu, now, frame, k, heap>>

\* The instance k protects a message at the clock reading now.
DoProtectMessage ==
    /\ frame.kind = "none"
    /\ \E payload \in Payloads, topicKey \in SymKeys :
        LET r == ProtectMessage(k.SignerID, PrivateKeyBytes, payload, topicKey, now)
        IN  /\ last' = Call("ProtectMessage", topicKey, r)
            /\ frame' = IF r.err = "nil"
                        THEN [kind |-> "msg", buf |-> r.out, payload |-> payload,
                              key |-> topicKey, at |-> now, signer |-> k.SignerID,
                              spub |-> Ed25519Public(PrivateKeyBytes)]
                        ELSE NoFrame
            /\ UNCHANGED <<mu, now, k, heap>>

\* A peer client protects a message under its own signer ID and private key.
DoPeerProtectMessage ==
    /\ frame.kind = "none"
    /\ \E s \in Signers, payload \in Payloads, clk \in PeerReadings \cup {now} :
        LET r == ProtectMessage(s.SignerID, s.PrivateKey, payload, KeyA, clk)
        IN  /\ last' = Call("ProtectMessage", KeyA, r)
            /\ frame' = [kind |-> "msg", buf |-> r.out, payload |-> payload,
                          key |-> KeyA, at |-> clk, signer |-> s.SignerID,
                          spub |-> Ed25519Public(s.PrivateKey)]
            /\ UNCHANGED <<mu, now, k, heap>>

\* The instance k unprotects the message in flight at the clock reading now.
\* The message in flight loses all but its timestamp: what is left is too
\* short a buffer, and carries no payload.
CutFrame ==
    /\ frame.kind = "msg"
    /\ frame' = [frame EXCEPT !.kind = "cut", !.payload = <<>>,
                              !.buf = Take(frame.buf, TimestampLen)]
    /\ last' = NoCall
    /\ UNCHANGED <<mu, now, k, heap>>

DoUnprotectMessage ==
    /\ frame.kind \in {"msg", "cut"}
    /\ \E topicKey \in ValidSymKeys \cup {ZeroKey} :
          last' = Call("UnprotectMessage", topicKey,
                       UnprotectMessage(k.PubKeys, frame.buf, topicKey, now))
    /\ UNCHANGED <<mu, now, frame, k, heap>>

DoAddPubKey ==
    /\ \E id \in Ids, key \in PubKeyInputs :
        LET r == AddPubKey(k.PubKeys, id, key)
        IN  /\ k' = [k EXCEPT !.PubKeys = r.PubKeys]
            /\ last' = Call("AddPubKey", id, [out |-> key, err |-> r.err])
    /\ UNCHANGED <<mu, now, frame, heap>>

\* AddPubKey with an id of any length and any key
DoAddAnyPubKey ==
    /\ \E id \in AnyLengthIds, key \in AnyPubKeyInputs :
        LET r == AddPubKey(k.PubKeys, id, key)
        IN  /\ k' = [k EXCEPT !.PubKeys = r.PubKeys]
            /\ last' = Call("AddPubKey", id, [out |-> key, err |-> r.err])
    /\ UNCHANGED <<mu, now, frame, heap>>

\* RandomKey is called, in either of its two definitions; the source delivers
\* n bytes.  The call records the bytes delivered.
DoRandomKey ==
    /\ \E stream \in RandomStreams, n \in 0 .. KeyLen :
          last' = Call("RandomKey", Take(stream, n), RandomKey(stream, n))
    /\ UNCHANGED <<mu, now, frame, k, heap>>

DoRandomKeyUnchecked ==
    /\ \E stream \in RandomStreams, n \in 0 .. KeyLen :
          last' = Call("RandomKey", Take(stream, n), RandomKeyUnchecked(stream, n))
    /\ UNCHANGED <<mu, now, frame, k, heap>>

DoRandomID ==
    /\ \E stream \in RandomStreams, n \in 0 .. IDLen :
          last' = Call("RandomID", Take(stream, n), RandomID(stream, n))
    /\ UNCHANGED <<mu, now, frame, k, heap>>

DoRandomIDUnchecked ==
    /\ \E stream \in RandomStreams, n \in 0 .. IDLen :
          last' = Call("RandomID", Take(stream, n), RandomIDUnchecked(stream, n))
    /\ UNCHANGED <<mu, now, frame, k, heap>>

DoGetPubKey ==
    /\ \E id \in Ids : last' = Call("GetPubKey", id, GetPubKey(k.PubKeys, id))
    /\ UNCHANGED <<mu, now, frame, k, heap>>

DoRemovePubKey ==
    /\ \E id \in Ids :
        LET r == RemovePubKey(k.PubKeys, id)
        IN  /\ k' = [k EXCEPT !.PubKeys = r.PubKeys]
            /\ last' = Call("RemovePubKey", id, [out |-> <<>>, err |-> r.err])
    /\ UNCHANGED <<mu, now, frame, heap>>

DoResetPubKeys ==
    /\ k' = [k EXCEPT !.PubKeys = ResetPubKeys(k.PubKeys)]
    /\ last' = Call("ResetPubKeys", <<>>, Ok(<<>>))
    /\ UNCHANGED <<mu, now, frame, heap>>

\* The caller fills its buffer with a key, or changes the first byte of what
\* the buffer holds.
CallerWrites ==
    /\ \E b \in CallerKeys \cup {[heap.caller EXCEPT ![1] = (heap.caller[1] + 1) % ByteBase]} :
          /\ b # heap.caller
          /\ heap.caller \in CallerKeys \/ b \in CallerKeys
          /\ heap' = [heap EXCEPT !.caller = b]
    /\ last' = NoCall
    /\ UNCHANGED <<mu, now, frame, k>>

\* SetKey is called with the caller's buffer.
DoSetKey ==
    /\ LET r == SetKey(k, heap, "caller")
       IN  /\ k' = r.k
           /\ heap' = [r.heap EXCEPT !.given = IF r.err = "nil" THEN heap.caller ELSE @]
           /\ last' = Call("SetKey", heap.caller, [out |-> <<>>, err |-> r.err])
    /\ UNCHANGED <<mu, now, frame>>

\* A controller whose Ed25519 key is c2 protects a command for the client of
\* Ed25519 public key client.  The frame records as key the symmetric key the
\* controller derived, as signer the client's and as spub the controller's
\* Curve25519 public key.
DoProtectCommandPubKey ==
    /\ frame.kind = "none"
    /\ \E command \in Payloads, c2 \in {PrivC, PrivD}, client \in {PrivA, PrivB},
          clk \in PeerReadings \cup {now} :
        LET clientPk == PublicEd25519KeyToCurve25519(Ed25519Public(client))
            c2Sk == PrivateEd25519KeyToCurve25519(c2)
            r == ProtectCommandPubKey(command, clientPk, c2Sk, clk)
        IN  /\ last' = Call("ProtectCommandPubKey", clientPk, r)
            /\ frame' = [kind |-> "cmd", buf |-> r.out, payload |-> command,
                          key |-> Take(Sha3Sum256(ScalarMult(c2Sk, clientPk)), KeyLen),
                          at |-> clk, signer |-> clientPk,
                          spub |-> PublicEd25519KeyToCurve25519(Ed25519Public(c2))]
            /\ UNCHANGED <<mu, now, k, heap>>

\* The instance k unprotects the command in flight at the clock reading now.
DoUnprotectCommand ==
    /\ frame.kind = "cmd"
    /\ last' = Call("UnprotectCommand", <<>>,
                    UnprotectCommand(PrivateKeyBytes, k.C2PubKey, frame.buf, now))
    /\ UNCHANGED <<mu, now, frame, k, heap>>

\* NewPubKeyMaterial is called; the instance it returns, if any, replaces k.
DoNewPubKeyMaterial ==
    /\ \E signerID \in Ids \cup {ShortId}, privateKey \in CallerKeys \cup {PrivA},
          c2 \in {PrivC, PrivD} :
        LET c2PubKey == PublicEd25519KeyToCurve25519(Ed25519Public(c2))
            r == NewPubKeyMaterial(signerID, privateKey, c2PubKey)
        IN  /\ IF r.err = "nil"
               THEN /\ k' = [SignerID |-> r.SignerID, PrivateKey |-> r.PrivateKey,
                             C2PubKey |-> r.C2PubKey, PubKeys |-> r.PubKeys]
                    /\ heap' = [heap EXCEPT ![r.PrivateKey] = privateKey, !.given = privateKey]
               ELSE UNCHANGED <<k, heap>>
            /\ last' = Call("NewPubKeyMaterial",
                            [SignerID |-> signerID, PrivateKey |-> privateKey,
                             C2PubKey |-> c2PubKey],
                            [out |-> IF r.err = "nil"
                                     THEN PubKeyMaterial(r.SignerID, privateKey, r.C2PubKey, r.PubKeys)
                                     ELSE <<>>,
                             err |-> r.err])
    /\ UNCHANGED <<mu, now, frame>>

\* A goroutine enters a mutating call and takes the lock.
WriterLock ==
    /\ mu.writer = "idle"
    /\ CanLock(mu)
    /\ \E call \in MutatingCalls : \E target \in Targets(call) :
          mu' = [mu EXCEPT !.writer = "writing", !.wop = call, !.before = Secrets,
                           !.target = target]
    /\ last' = NoCall
    /\ UNCHANGED <<now, frame, k, heap>>

\* The mutating call writes one part of what it has to write: half of the
\* key, or one entry of the store, the stale entries leaving first.
WriterStep ==
    /\ mu.writer = "writing"
    /\ Secrets # mu.target
    /\ \/ /\ PrivateKeyBytes # mu.target.PrivateKey
          /\ heap' = [heap EXCEPT ![k.PrivateKey] = CopyStep(@, mu.target.PrivateKey)]
          /\ UNCHANGED k
       \/ /\ PrivateKeyBytes = mu.target.PrivateKey
          /\ \E e \in k.PubKeys \ mu.target.PubKeys :
                k' = [k EXCEPT !.PubKeys = @ \ {e}]
          /\ UNCHANGED heap
       \/ /\ PrivateKeyBytes = mu.target.PrivateKey
          /\ k.PubKeys \subseteq mu.target.PubKeys
          /\ \E e \in mu.target.PubKeys \ k.PubKeys :
                k' = [k EXCEPT !.PubKeys = @ \cup {e}]
          /\ UNCHANGED heap
    /\ last' = NoCall
    /\ UNCHANGED <<now, frame, mu>>

\* The mutating call has written everything, releases the lock and returns.
WriterUnlock ==
    /\ mu.writer = "writing"
    /\ Secrets = mu.target
    /\ mu' = [mu EXCEPT !.writer = "idle", !.wop = "none", !.before = NoSecrets,
                        !.target = NoSecrets,
                        !.commits = IF mu.reader \in {"locked", "half"}
                                    THEN @ \cup {Secrets} ELSE @]
    /\ last' = NoCall
    /\ UNCHANGED <<now, frame, k, heap>>

\* A goroutine enters a reading call and takes the lock for reading.
ReaderRLock ==
    /\ mu.reader = "idle"
    /\ CanRLock(mu)
    /\ \E call \in ReadingCalls :
          mu' = [mu EXCEPT !.reader = "locked", !.rop = call, !.obs = NoSecrets,
                           !.commits = {Secrets}]
    /\ last' = NoCall
    /\ UNCHANGED <<now, frame, k, heap>>

\* The reading call reads the first half of the key and the entries of IdA.
ReaderReadFirst ==
    /\ mu.reader = "locked"
    /\ mu' = [mu EXCEPT !.reader = "half",
                        !.obs = [PrivateKey |-> Take(PrivateKeyBytes, Len(PrivateKeyBytes) \div 2),
                                 PubKeys |-> EntriesOf(k.PubKeys, IdA)]]
    /\ last' = NoCall
    /\ UNCHANGED <<now, frame, k, heap>>

\* It reads the rest, releases the lock and holds what it has read.
ReaderReadRest ==
    /\ mu.reader = "half"
    /\ mu' = [mu EXCEPT !.reader = "done",
                        !.obs = [PrivateKey |-> mu.obs.PrivateKey
                                     \o Drop(PrivateKeyBytes, Len(mu.obs.PrivateKey)),
                                 PubKeys |-> mu.obs.PubKeys
                                     \cup (k.PubKeys \ EntriesOf(k.PubKeys, IdA))]]
    /\ last' = NoCall
    /\ UNCHANGED <<now, frame, k, heap>>

\* The reading call returns.
ReaderReturn ==
    /\ mu.reader = "done"
    /\ mu' = [mu EXCEPT !.reader = "idle", !.rop = "none", !.obs = NoSecrets, !.commits = {}]
    /\ last' = NoCall
    /\ UNCHANGED <<now, frame, k, heap>>

\* the instance k by value
ThisInstance == PubKeyMaterial(k.SignerID, PrivateKeyBytes, k.C2PubKey, k.PubKeys)

\* a snapshot in flight: buf is the JSON text, payload the instance it was made of
JSONFrame(kind, raw, inst) == [NoFrame EXCEPT !.kind = kind, !.buf = raw, !.payload = inst]

\* The instance k is serialized.
DoMarshalJSON ==
    /\ frame.kind = "none"
    /\ frame' = JSONFrame("json", MarshalJSON(ThisInstance), ThisInstance)
    /\ last' = Call("MarshalJSON", <<>>, Ok(MarshalJSON(ThisInstance)))
    /\ UNCHANGED <<mu, now, k, heap>>

\* A symmetric instance is serialized.
DoMarshalSymJSON ==
    /\ frame.kind = "none"
    /\ \E key \in ValidSymKeys :
          /\ frame' = JSONFrame("json", MarshalJSON(SymKeyMaterial(key)), SymKeyMaterial(key))
          /\ last' = Call("MarshalJSON", <<>>, Ok(MarshalJSON(SymKeyMaterial(key))))
    /\ UNCHANGED <<mu, now, k, heap>>

\* The snapshot is edited where it is stored: a field of the envelope is
\* removed, the tag is replaced, or the whole text is.
EditEnvelope ==
    /\ frame.kind = "json"
    /\ \/ \E name \in {"keyType", "keyData"} :
             frame' = [frame EXCEPT !.kind = "edited",
                          !.buf = JObject([f \in DOMAIN frame.buf.v \ {name} |-> frame.buf.v[f]])]
       \/ \E text \in KeyTypeInputs :
             frame' = [frame EXCEPT !.kind = "edited",
                          !.buf = JObject([frame.buf.v EXCEPT !.keyType = KeyTypeValue(text)])]
       \/ \E text \in RawInputs :
             frame' = JSONFrame("edited", RawValue(text), <<>>)
    /\ last' = NoCall
    /\ UNCHANGED <<mu, now, k, heap>>

\* The snapshot in flight is read back.
DoFromRawJSON ==
    /\ frame.kind \in {"json", "edited"}
    /\ last' = Call("FromRawJSON", frame.buf, FromRawJSON(frame.buf))
    /\ UNCHANGED <<mu, now, frame, k, heap>>

Next ==
    \/ Tick
    \/ DoProtectSymKey
    \/ DoProtectWithOwnBuffer
    \/ FlipFrameBit
    \/ Retime
    \/ DoUnprotectSymKey
    \/ DoEncrypt
    \/ DoDecrypt
    \/ DoEncryptWithOwnBuffer
    \/ DoDecryptWithOwnBuffer
    \/ DoProtectMessage
    \/ DropFrame

Spec == Init /\ [][Next]_vars

\* the message flow and the public-key store
NextPub ==
    \/ Tick
    \/ DoProtectMessage
    \/ DoPeerProtectMessage
    \/ CutFrame
    \/ DoUnprotectMessage
    \/ DoAddPubKey
    \/ DoGetPubKey
    \/ DoRemovePubKey
    \/ DoResetPubKeys
    \/ DropFrame

SpecPub == Init /\ [][NextPub]_vars

\* key rotation and the command flow
NextKey ==
    \/ Tick
    \/ CallerWrites
    \/ DoSetKey
    \/ DoProtectCommandPubKey
    \/ DoUnprotectCommand
    \/ DropFrame

SpecKey == Init /\ [][NextKey]_vars

\* construction of instances, key rotation and the store
NextRotate ==
    \/ CallerWrites
    \/ DoSetKey
    \/ DoAddPubKey
    \/ DoNewPubKeyMaterial

SpecRotate == Init /\ [][NextRotate]_vars

\* one instance used by two goroutines
NextLock ==
    \/ WriterLock
    \/ WriterStep
    \/ WriterUnlock
    \/ ReaderRLock
    \/ ReaderReadFirst
    \/ ReaderReadRest
    \/ ReaderReturn

SpecLock == Init /\ [][NextLock]_vars

\* persistence of the instances
NextJSON ==
    \/ DoAddPubKey
    \/ DoSetKey
    \/ DoMarshalJSON
    \/ DoMarshalSymJSON
    \/ EditEnvelope
    \/ DoFromRawJSON
    \/ DropFrame

SpecJSON == Init /\ [][NextJSON]_vars

\* the store alone, with ids of every length
NextStore ==
    \/ DoAddAnyPubKey
    \/ DoRemovePubKey
    \/ DoResetPubKeys

SpecStore == Init /\ [][NextStore]_vars

\* the random generators, as the library defines them
NextRandom ==
    \/ DoRandomKey
    \/ DoRandomKeyUnchecked
    \/ DoRandomID
    \/ DoRandomIDUnchecked

SpecRandom == Init /\ [][NextRandom]_vars

\* one protected buffer, unprotected again and again as time passes
NextReplay ==
    \/ ClockAdvances
    \/ DoProtectSymKey
    \/ DoUnprotectSymKey
    \/ DropFrame

SpecReplay == Init /\ [][NextReplay]_vars

\* the two timestamp validators against the clock
NextTime ==
    \/ Tick
    \/ DoValidateTimestamp
    \/ DoValidateTimestampKey

SpecTime == Init /\ [][NextTime]_vars

-----------------------------------------------------------------------------
(* The framing claims, under Spec *)

UnprotectedWithItsKey ==
    /\ last.op = "UnprotectSymKey"
    /\ frame.kind = "sym"
    /\ last.arg = frame.key

\* C1: round trip.  For every valid key and every payload, the empty one
\* included, UnprotectSymKey(ProtectSymKey(payload, key), key) called at the
\* clock reading of the ProtectSymKey call succeeds and returns payload.
C1_RoundTrip ==
    (UnprotectedWithItsKey /\ frame.at = now)
        => (last.err = "nil" /\ last.out = frame.payload)

\* The round trip of a payload of at least one byte, which the code does make.
RoundTripNonEmpty ==
    (UnprotectedWithItsKey /\ frame.at = now /\ frame.payload # <<>>)
        => (last.err = "nil" /\ last.out = frame.payload)

RoundTripNonEmptyReached ==
    UnprotectedWithItsKey /\ frame.at = now /\ frame.payload # <<>> /\ last.err = "nil"

\* the second ts is inside the replay window [clk - MaxDelayDuration, clk]
InWindow(ts, clk) == TimeUnix(ts) <= clk /\ TimeUnix(ts) >= clk - MaxDelayDuration

\* the timestamp of the frame in flight is inside the replay window
FrameFresh == InWindow(FrameTimestamp, now)

\* so is the timestamp it was made with
OriginalFresh == InWindow(Unix(frame.at), now)

\* C2: tamper detection.  A frame made by ProtectSymKey under key k, with one
\* bit of its ciphertext or tag flipped, or with its timestamp replaced by
\* another one inside the replay window, makes UnprotectSymKey with k fail with
\* an authenticity error and return no plaintext.
C2_TamperDetection ==
    /\ (/\ last.op = "UnprotectSymKey"
        /\ frame.kind = "flipped"
        /\ last.arg = frame.key
        /\ OriginalFresh)
           => (last.err = "ErrNotAuthentic" /\ last.out = <<>>)
    /\ (/\ last.op = "UnprotectSymKey"
        /\ frame.kind = "retimed"
        /\ last.arg = frame.key
        /\ FrameFresh)
           => (last.err = "ErrNotAuthentic" /\ last.out = <<>>)

\* Tamper detection on the frames that carry at least one byte of payload.
TamperDetectionNonEmpty ==
    (/\ last.op = "UnprotectSymKey"
     /\ frame.kind \in {"flipped", "retimed"}
     /\ last.arg = frame.key
     /\ frame.payload # <<>>
     /\ OriginalFresh
     /\ FrameFresh)
        => (last.err = "ErrNotAuthentic" /\ last.out = <<>>)

\* No tampered frame is ever accepted, whatever it carries and whenever.
TamperedNeverAccepted ==
    (last.op = "UnprotectSymKey" /\ frame.kind \in {"flipped", "retimed"})
        => (last.err # "nil" /\ last.out = <<>>)

\* C3: replay window.  With the correct key, UnprotectSymKey rejects a
\* protected buffer whose timestamp is now - MaxDelayDuration - 1 second with
\* ErrTimestampTooOld, rejects one whose timestamp is now + 1 second with
\* ErrTimestampInFuture, and accepts one whose timestamp is the current second.
C3_ReplayWindow ==
    UnprotectedWithItsKey =>
        /\ (FrameTimestamp = Unix(now) - MaxDelaySeconds - 1) => last.err = "ErrTimestampTooOld"
        /\ (FrameTimestamp = Unix(now) + 1) => last.err = "ErrTimestampInFuture"
        /\ (FrameTimestamp = Unix(now)) => last.err = "nil"

\* The replay window on the frames that carry at least one byte of payload.
ReplayWindowNonEmpty ==
    (UnprotectedWithItsKey /\ frame.payload # <<>>) =>
        /\ (FrameTimestamp = Unix(now) - MaxDelaySeconds - 1) => last.err = "ErrTimestampTooOld"
        /\ (FrameTimestamp = Unix(now) + 1) => last.err = "ErrTimestampInFuture"
        /\ (FrameTimestamp = Unix(now)) => last.err = "nil"

\* C4: key validation.  Encrypt, Decrypt, ProtectSymKey and ProtectMessage
\* return an error and no output bytes whenever the symmetric (topic) key has
\* a length other than KeyLen or is KeyLen zero bytes, and the failed call
\* leaves the key material instance as it was.
C4_KeyValidation ==
    (/\ last.op \in {"Encrypt", "Decrypt", "ProtectSymKey", "ProtectMessage"}
     /\ (Len(last.arg) # KeyLen \/ AllZero(last.arg)))
        => (/\ last.err # "nil"
            /\ last.out = <<>>
            /\ frame.kind \in {"none", "sym"}
            /\ InstanceState = last.pre)

C4_Witness ==
    /\ last.op = "ProtectMessage"
    /\ last.arg = ZeroKey
    /\ last.err = "ErrKeyAllZero"
    /\ InstanceState = last.pre

-----------------------------------------------------------------------------
(* The message flow and the store, under SpecPub *)

MessageUnprotectedWithItsKey ==
    /\ last.op = "UnprotectMessage"
    /\ frame.kind = "msg"
    /\ last.arg = frame.key

\* the store holds the signer's public key under the signer's ID
SignerRegistered == [id |-> frame.signer, key |-> frame.spub] \in k.PubKeys

SignerUnknown == EntriesOf(k.PubKeys, frame.signer) = {}

OtherEntries(pubKeys, id) == {e \in pubKeys : e.id # id}

\* C5 as stated: UnprotectMessage with the topic key fails while the store has
\* no entry for the signer and returns the payload once AddPubKey(S, public key
\* of S) has been applied, the store contents alone deciding the outcome.
C5_StoreAloneDecides ==
    MessageUnprotectedWithItsKey =>
        /\ SignerUnknown => last.err # "nil"
        /\ SignerRegistered => (last.err = "nil" /\ last.out = frame.payload)

\* C5, amended: UnprotectMessage with the topic key fails while the store has
\* no entry for the signer; once AddPubKey(S, public key of S) has been applied
\* it returns the payload when called while the message's timestamp is inside
\* the replay window, and fails with a timestamp error when called outside it.
C5_MessageFlow ==
    MessageUnprotectedWithItsKey =>
        /\ SignerUnknown => (last.err # "nil" /\ last.out = <<>>)
        /\ (SignerRegistered /\ FrameFresh) => (last.err = "nil" /\ last.out = frame.payload)
        /\ (SignerRegistered /\ ~FrameFresh) =>
               (last.err \in {"ErrTimestampTooOld", "ErrTimestampInFuture"} /\ last.out = <<>>)

C5_Witness ==
    /\ MessageUnprotectedWithItsKey
    /\ SignerRegistered
    /\ FrameFresh
    /\ last.err = "nil"
    /\ last.out = frame.payload
    /\ frame.payload # <<>>

\* C7: store overwrite.  After a successful AddPubKey(id, key) the store holds
\* exactly one entry for id, GetPubKey(id) returns key, also when id had another
\* key before, and the entries of every other id are as before; the store never
\* holds two entries for one id.
C7_StoreOverwrite ==
    /\ \A e1, e2 \in k.PubKeys : e1.id = e2.id => e1 = e2
    /\ (last.op = "AddPubKey" /\ last.err = "nil") =>
          /\ EntriesOf(k.PubKeys, last.arg) = {[id |-> last.arg, key |-> last.out]}
          /\ GetPubKey(k.PubKeys, last.arg) = Ok(last.out)
          /\ OtherEntries(k.PubKeys, last.arg) = OtherEntries(last.pre.PubKeys, last.arg)

C7_Witness ==
    /\ last.op = "AddPubKey"
    /\ last.err = "nil"
    /\ \E e \in last.pre.PubKeys : e.id = last.arg /\ e.key # last.out
    /\ OtherEntries(k.PubKeys, last.arg) # {}

\* C8: remove semantics.  RemovePubKey(id) succeeds exactly when id is present;
\* then GetPubKey(id) returns ErrPubKeyNotFound and every other entry is as
\* before.  On an absent id it returns an error and leaves the store as it was.
C8_RemoveSemantics ==
    last.op = "RemovePubKey" =>
        /\ (last.err = "nil") <=> (EntriesOf(last.pre.PubKeys, last.arg) # {})
        /\ last.err = "nil" =>
              /\ GetPubKey(k.PubKeys, last.arg) = Fail("ErrPubKeyNotFound")
              /\ OtherEntries(k.PubKeys, last.arg) = OtherEntries(last.pre.PubKeys, last.arg)
        /\ last.err # "nil" => k.PubKeys = last.pre.PubKeys

C8_Witness ==
    /\ last.op = "RemovePubKey"
    /\ last.err = "nil"
    /\ EntriesOf(last.pre.PubKeys, last.arg) # {}
    /\ k.PubKeys # {}

\* the second of two removes of one id: the id is absent and the call fails
RemoveAbsentReached ==
    /\ last.op = "RemovePubKey"
    /\ last.err = "ErrPubKeyNotFound"
    /\ k.PubKeys # {}

\* C9: reset semantics.  After ResetPubKeys(), whatever the store held,
\* GetPubKeys() is empty, GetPubKey(id) returns ErrPubKeyNotFound for every id,
\* the previously present ones included, and UnprotectMessage fails on the
\* message of any signer: with ErrPubKeyNotFound where only the store stands in
\* the way.
C9_ResetSemantics ==
    /\ last.op = "ResetPubKeys" =>
          /\ DOMAIN GetPubKeys(k.PubKeys) = {}
          /\ \A id \in Ids \cup {e.id : e \in last.pre.PubKeys} :
                GetPubKey(k.PubKeys, id) = Fail("ErrPubKeyNotFound")
          /\ frame.kind = "msg" =>
                /\ \A topicKey \in SymKeys :
                      UnprotectMessage(k.PubKeys, frame.buf, topicKey, now).err # "nil"
                /\ FrameFresh =>
                      UnprotectMessage(k.PubKeys, frame.buf, frame.key, now)
                          = Fail("ErrPubKeyNotFound")
    /\ (last.op = "UnprotectMessage" /\ k.PubKeys = {}) => (last.err # "nil" /\ last.out = <<>>)

C9_Witness ==
    /\ last.op = "ResetPubKeys"
    /\ frame.kind = "msg"
    /\ [id |-> frame.signer, key |-> frame.spub] \in last.pre.PubKeys
    /\ Cardinality(last.pre.PubKeys) > 1
    /\ FrameFresh

-----------------------------------------------------------------------------
(* Key rotation and the command flow, under SpecKey *)

\* the instance's Curve25519 public key is the one the command was made for, and
\* the controller public key it holds is that of the controller that made it
ClientMatches ==
    /\ ScalarBaseMult(PrivateEd25519KeyToCurve25519(PrivateKeyBytes)) = frame.signer
    /\ k.C2PubKey = frame.spub

CommandUnprotected == last.op = "UnprotectCommand" /\ frame.kind = "cmd" /\ FrameFresh

\* C6: command flow.  A command protected with ProtectCommandPubKey(command,
\* clientCurvePublicKey, controllerCurveSecretKey) is recovered unchanged by
\* UnprotectCommand on the instance holding the matching private key and the
\* controller's public key, both sides deriving the same symmetric key; an
\* instance holding another private key or controller public key fails.
C6_CommandFlow ==
    CommandUnprotected =>
        IF ClientMatches THEN last.err = "nil" /\ last.out = frame.payload
        ELSE last.err # "nil" /\ last.out = <<>>

\* The command flow of the commands of at least one byte.
CommandFlowNonEmpty ==
    (CommandUnprotected /\ frame.payload # <<>>) =>
        IF ClientMatches THEN last.err = "nil" /\ last.out = frame.payload
        ELSE last.err = "ErrNotAuthentic" /\ last.out = <<>>

\* Both sides derive the same key exactly when the keys match.
CommandKeyAgreement ==
    frame.kind = "cmd" =>
        (ClientMatches <=>
            Take(Sha3Sum256(ScalarMult(PrivateEd25519KeyToCurve25519(PrivateKeyBytes),
                                       k.C2PubKey)), KeyLen) = frame.key)

CommandRecovered ==
    CommandUnprotected /\ ClientMatches /\ last.err = "nil" /\ frame.payload # <<>>

\* C10: SetKey copies its input.  After a successful SetKey(b), whatever the
\* caller later writes to b, the instance's private key is the bytes b held at
\* the time of the call.
C10_SetKeyCopies == PrivateKeyBytes = heap.given

C10_Witness ==
    /\ heap.given = PrivB
    /\ heap.caller # PrivB
    /\ heap.caller[1] # PrivB[1]
    /\ Len(heap.caller) = Len(PrivB)
    /\ PrivateKeyBytes = PrivB

-----------------------------------------------------------------------------
(* Key rotation next to the store, under SpecRotate *)

\* C11: SetKey frame.  SetKey never changes the signer ID, the controller
\* public key or the store; it succeeds exactly when its input has the Ed25519
\* private key length and is not all-zero, and then the private key is the
\* input; otherwise it returns an error and the private key is the one held
\* before the call.
C11_SetKeyFrame ==
    last.op = "SetKey" =>
        /\ k.SignerID = last.pre.SignerID
        /\ k.C2PubKey = last.pre.C2PubKey
        /\ k.PubKeys = last.pre.PubKeys
        /\ (last.err = "nil") <=>
               (Len(last.arg) = Ed25519PrivateKeySize /\ ~AllZero(last.arg))
        /\ last.err = "nil" => PrivateKeyBytes = last.arg
        /\ last.err # "nil" => PrivateKeyBytes = last.pre.PrivateKey

\* an all-zero key is refused by an instance that holds a rotated key and a
\* store with entries
C11_Witness ==
    /\ last.op = "SetKey"
    /\ last.err # "nil"
    /\ last.arg = ZeroPriv
    /\ PrivateKeyBytes = PrivB
    /\ k.PubKeys # {}

\* a key is accepted by an instance whose store has entries
SetKeyAcceptedReached ==
    /\ last.op = "SetKey"
    /\ last.err = "nil"
    /\ last.pre.PrivateKey # PrivateKeyBytes
    /\ k.PubKeys # {}

-----------------------------------------------------------------------------
(* Persistence, under SpecJSON *)

ReadBack == last.op = "FromRawJSON" /\ frame.kind = "json"

\* C12: serialization round trip.  FromRawJSON of what MarshalJSON made of an
\* instance, of either variant and in any state, succeeds and yields an instance
\* of the same variant with the same key bytes, signer ID, controller public key
\* and store contents.
C12_JSONRoundTrip ==
    ReadBack =>
        /\ last.err = "nil"
        /\ last.out = frame.payload
        /\ last.out.variant = "pubKeyMaterial" =>
               GetPubKeys(last.out.PubKeys) = GetPubKeys(frame.payload.PubKeys)

C12_Witness ==
    /\ ReadBack
    /\ last.err = "nil"
    /\ last.out.variant = "pubKeyMaterial"
    /\ Cardinality(last.out.PubKeys) = 2
    /\ last.out.PrivateKey = PrivB

SymRoundTripReached ==
    /\ ReadBack
    /\ last.err = "nil"
    /\ last.out = SymKeyMaterial(KeyB)

\* the envelope read has both fields
HasBothFields(raw) == raw.t = "object" /\ {"keyType", "keyData"} \subseteq DOMAIN raw.v

\* and its tag is the integer tag
HasTag(raw, tag) ==
    /\ HasBothFields(raw)
    /\ raw.v.keyType.t = "number"
    /\ raw.v.keyType.v = tag

HasNullTag(raw) == HasBothFields(raw) /\ raw.v.keyType.t = "null"

\* C13: FromRawJSON never silently defaults a variant.  It returns an error and
\* no instance for every envelope in which keyType or keyData is missing or in
\* which the keyType value is anything but the integer 0 or 1 (null, a number
\* that is not an integer and other integers included); it returns a symmetric
\* instance only for tag 0 and a public-key instance only for tag 1.
C13_NoSilentDefault ==
    last.op = "FromRawJSON" =>
        /\ ~(HasTag(last.arg, symKeyMaterialType) \/ HasTag(last.arg, pubKeyMaterialType)) =>
               (last.err # "nil" /\ DOMAIN last.out = {})
        /\ last.err = "nil" =>
               /\ last.out.variant = "symKeyMaterial" <=> HasTag(last.arg, symKeyMaterialType)
               /\ last.out.variant = "pubKeyMaterial" <=> HasTag(last.arg, pubKeyMaterialType)

\* The same for every envelope whose tag is not null.
NoSilentDefaultButNull ==
    (last.op = "FromRawJSON" /\ ~HasNullTag(last.arg)) =>
        /\ ~(HasTag(last.arg, symKeyMaterialType) \/ HasTag(last.arg, pubKeyMaterialType)) =>
               (last.err # "nil" /\ DOMAIN last.out = {})
        /\ last.err = "nil" =>
               /\ last.out.variant = "symKeyMaterial" <=> HasTag(last.arg, symKeyMaterialType)
               /\ last.out.variant = "pubKeyMaterial" <=> HasTag(last.arg, pubKeyMaterialType)

\* a null tag is read as the symmetric variant
NullTagReadAsSymmetric ==
    /\ last.op = "FromRawJSON"
    /\ HasNullTag(last.arg)
    /\ last.err = "nil"
    /\ last.out.variant = "symKeyMaterial"

\* an envelope without its tag, and one with another integer as tag, are refused
BadEnvelopeRefused ==
    /\ last.op = "FromRawJSON"
    /\ last.arg.t = "object"
    /\ \/ "keyType" \notin DOMAIN last.arg.v
       \/ HasTag(last.arg, 2)
    /\ last.err # "nil"

-----------------------------------------------------------------------------
(* Concurrent use, under SpecLock *)

\* the mutating call has written part of what it has to write
Torn == mu.writer = "writing" /\ Secrets # mu.before /\ Secrets # mu.target

\* C14: concurrent use of one instance is safe.  SetKey, AddPubKey, RemovePubKey
\* and ResetPubKeys run with exclusive access: no reading call holds the
\* instance while one of them writes, and what a reading call has read is the
\* instance as a mutating call found or left it, never a partly replaced key or
\* a partly cleared store.
C14_ExclusiveMutation ==
    /\ ~(mu.writer = "writing" /\ ReaderHolds(mu))
    /\ ReaderHolds(mu) => mu.commits = {Secrets}
    /\ mu.reader = "done" => mu.obs \in mu.commits

\* a reading call has returned the instance a mutating call found, while that
\* call has written part of what it has to write
C14_Witness ==
    /\ mu.reader = "done"
    /\ Torn
    /\ mu.obs = mu.before
    /\ mu.wop = "ResetPubKeys"

\* the key is partly replaced
TornKeyReached == Torn /\ mu.wop = "SetKey" /\ mu.reader = "idle"

\* C15: constructor validation.  NewPubKeyMaterial returns an error and no
\* instance when the signer ID has another length than IDLen or the private key
\* has the wrong length or is all-zero; on success the instance holds exactly
\* the signer ID, private key and controller public key given, and an empty
\* store.
C15_ConstructorValidation ==
    last.op = "NewPubKeyMaterial" =>
        /\ (\/ Len(last.arg.SignerID) # IDLen
            \/ Len(last.arg.PrivateKey) # Ed25519PrivateKeySize
            \/ AllZero(last.arg.PrivateKey)) =>
               (last.err # "nil" /\ DOMAIN last.out = {} /\ InstanceState = last.pre)
        /\ last.err = "nil" =>
               /\ last.out = PubKeyMaterial(last.arg.SignerID, last.arg.PrivateKey,
                                            last.arg.C2PubKey, {})
               /\ ThisInstance = last.out
               /\ DOMAIN GetPubKeys(k.PubKeys) = {}

\* an instance is made where one with another key and a store with entries was
C15_Witness ==
    /\ last.op = "NewPubKeyMaterial"
    /\ last.err = "nil"
    /\ last.pre.PubKeys # {}
    /\ last.pre.PrivateKey # PrivateKeyBytes
    /\ k.SignerID = IdB

\* an ID of IDLen-1 bytes with a valid key, and an all-zero key with a valid
\* ID, are refused
ConstructorRefusalsReached ==
    /\ last.op = "NewPubKeyMaterial"
    /\ last.err # "nil"
    /\ \/ last.arg.SignerID = ShortId /\ last.arg.PrivateKey = PrivA
       \/ last.arg.SignerID = IdA /\ last.arg.PrivateKey = ZeroPriv

-----------------------------------------------------------------------------
(* The wire format and the order of the checks, under Spec *)

\* C16: wire format.  Every buffer ProtectSymKey returns has length
\* TimestampLen + len(payload) + TagLen and starts with the little-endian
\* encoding of the Unix second it was made at; the key the caller passed holds
\* the bytes it held; a call that fails returns no buffer.
C16_WireFormat ==
    /\ last.op = "ProtectSymKey" =>
          IF last.err = "nil"
          THEN /\ last.out = frame.buf
               /\ Len(last.out) = TimestampLen + Len(frame.payload) + TagLen
               /\ Uint64(Take(last.out, TimestampLen)) = Unix(frame.at)
               /\ \A i \in 2 .. TimestampLen :
                     Take(last.out, TimestampLen)[i] = (Unix(frame.at) \div Pow2(BitsPerByte * (i - 1))) % ByteBase
               /\ frame.key = last.arg
          ELSE last.out = <<>> /\ frame = NoFrame
    /\ Take(heap.caller, KeyLen) = Take(PrivB, KeyLen)

\* a payload was protected in the second second of the clock, under the key of
\* a caller whose slice had room behind the key
C16_Witness ==
    /\ last.op = "ProtectSymKey"
    /\ last.err = "nil"
    /\ frame.payload # <<>>
    /\ Unix(frame.at) = 1
    /\ last.arg = Take(heap.caller, KeyLen)
    /\ heap.caller # PrivB

ShortBufferInvalidKeyReached ==
    /\ last.op = "UnprotectSymKey"
    /\ last.arg = ZeroKey
    /\ Len(frame.buf) = TimestampLen + TagLen
    /\ last.err = "ErrTooShortCipher"

\* C18: ValidateTimestamp over the whole unsigned range.  Read as an unsigned
\* little-endian number of seconds t, the eight bytes give
\* ErrTimestampInFuture for every t after now, ErrTimestampTooOld for every t
\* before now - MaxDelayDuration, and nil exactly when t is between the two,
\* the values with the top bit set included.
C18_ValidateTimestamp ==
    last.op = "ValidateTimestamp" =>
        LET t == TimeUnix(Uint64(last.arg))
        IN  /\ t > now => last.err = "ErrTimestampInFuture"
            /\ t < now - MaxDelayDuration => last.err = "ErrTimestampTooOld"
            /\ last.err = "nil" <=> (now - MaxDelayDuration <= t /\ t <= now)

\* The same classification on the values without the top bit.
ValidateTimestampBelowTopBit ==
    (last.op = "ValidateTimestamp" /\ Uint64(last.arg) < UintRange \div 2) =>
        LET t == TimeUnix(Uint64(last.arg))
        IN  /\ t > now => last.err = "ErrTimestampInFuture"
            /\ t < now - MaxDelayDuration => last.err = "ErrTimestampTooOld"
            /\ last.err = "nil" <=> (now - MaxDelayDuration <= t /\ t <= now)

\* No value with the top bit set is called in the future: the conversion to
\* int64 makes it a second before 1970.
TopBitNeverInFuture ==
    (last.op = "ValidateTimestamp" /\ Uint64(last.arg) >= UintRange \div 2) =>
        last.err # "ErrTimestampInFuture"

\* a value with the top bit set has been called too old
TopBitReadAsTooOld ==
    /\ last.op = "ValidateTimestamp"
    /\ Uint64(last.arg) >= UintRange \div 2
    /\ last.err = "ErrTimestampTooOld"

\* a value without the top bit has been called in the future
FutureTimestampReached ==
    /\ last.op = "ValidateTimestamp"
    /\ Uint64(last.arg) < UintRange \div 2
    /\ last.err = "ErrTimestampInFuture"

\* the timestamp of the last validator call, as both validators read it
CalledTimestamp == TimeUnix(ToInt64(Uint64(last.arg)))

\* it is older than MaxDelayDuration and not older than MaxDelayKeyTransition
InTransitionOnly ==
    /\ CalledTimestamp < now - MaxDelayDuration
    /\ CalledTimestamp >= now - MaxDelayKeyTransition

\* C19: ValidateTimestampKey has its own window.  It accepts a timestamp
\* exactly when the timestamp is not in the future and not older than
\* MaxDelayKeyTransition, so that a timestamp older than MaxDelayDuration and
\* within MaxDelayKeyTransition is accepted by ValidateTimestampKey and
\* rejected by ValidateTimestamp.
C19_KeyTransitionWindow ==
    last.op = "ValidateTimestampKey" =>
        /\ last.err = "nil" <=>
              (CalledTimestamp <= now /\ CalledTimestamp >= now - MaxDelayKeyTransition)
        /\ InTransitionOnly =>
              (last.err = "nil" /\ ValidateTimestamp(last.arg, now) = "ErrTimestampTooOld")

\* ValidateTimestampKey answers as ValidateTimestamp does, on every timestamp
\* and at every clock reading.
KeyWindowIsMessageWindow ==
    last.op = "ValidateTimestampKey" => last.err = ValidateTimestamp(last.arg, now)

\* a timestamp older than MaxDelayDuration and within MaxDelayKeyTransition
\* has been refused by ValidateTimestampKey
TransitionTimestampRefused ==
    /\ last.op = "ValidateTimestampKey"
    /\ InTransitionOnly
    /\ last.err = "ErrTimestampTooOld"

\* a call of ProtectSymKey has found the sealed length wrong
LengthCheckFailed == last.op = "ProtectSymKey" /\ last.err = "ErrInvalidProtectedLen"

-----------------------------------------------------------------------------
(* The order of the checks of UnprotectMessage, under SpecPub *)

\* the store holds an entry for the signer of the frame in flight, with a key
\* that is not the signer's
SignerOverwritten ==
    /\ ~SignerUnknown
    /\ ~SignerRegistered

\* C20: order of the errors of UnprotectMessage.  The frame is opened with the
\* topic key first: a short buffer, a timestamp outside the replay window and a
\* wrong topic key fail there, whatever the store holds.  After that the call
\* fails with ErrPubKeyNotFound when the store has no entry for the signer,
\* with ErrInvalidSignature when the stored key is not the signer's, and
\* returns the payload only when all three steps pass.
C20_UnprotectMessageOrder ==
    (last.op = "UnprotectMessage" /\ frame.kind \in {"msg", "cut"}) =>
        /\ IF Len(frame.buf) <= TimestampLen + TagLen
           THEN last.err = "ErrTooShortCipher"
           ELSE IF ~FrameFresh
           THEN last.err \in {"ErrTimestampInFuture", "ErrTimestampTooOld"}
           ELSE IF Len(last.arg) # KeyLen \/ AllZero(last.arg)
           THEN last.err \in {"ErrInvalidKeyLen", "ErrKeyAllZero"}
           ELSE IF last.arg # frame.key
           THEN last.err = "ErrNotAuthentic"
           ELSE IF SignerUnknown
           THEN last.err = "ErrPubKeyNotFound"
           ELSE IF SignerOverwritten
           THEN last.err = "ErrInvalidSignature"
           ELSE last.err = "nil" /\ last.out = frame.payload
        /\ last.err # "nil" => last.out = <<>>

\* a fresh message opened with its topic key is refused for its signature,
\* the signer's entry holding another key
C20_Witness ==
    /\ MessageUnprotectedWithItsKey
    /\ FrameFresh
    /\ SignerOverwritten
    /\ last.err = "ErrInvalidSignature"

\* a message of an unknown signer opened with a wrong topic key fails on the
\* key, and one of a registered signer too
WrongTopicKeyUnknownSigner ==
    /\ last.op = "UnprotectMessage"
    /\ frame.kind = "msg"
    /\ FrameFresh
    /\ last.arg \in ValidSymKeys \ {frame.key}
    /\ SignerUnknown
    /\ last.err = "ErrNotAuthentic"

WrongTopicKeyRegisteredSigner ==
    /\ last.op = "UnprotectMessage"
    /\ frame.kind = "msg"
    /\ FrameFresh
    /\ last.arg \in ValidSymKeys \ {frame.key}
    /\ SignerRegistered
    /\ last.err = "ErrNotAuthentic"

\* a stale message of an unknown signer fails on its timestamp
StaleUnknownSigner ==
    /\ MessageUnprotectedWithItsKey
    /\ ~FrameFresh
    /\ SignerUnknown
    /\ last.err = "ErrTimestampTooOld"

\* a cut message fails on its length
CutMessageRefused ==
    /\ last.op = "UnprotectMessage"
    /\ frame.kind = "cut"
    /\ SignerRegistered
    /\ last.err = "ErrTooShortCipher"

\* a fresh message of an unknown signer opened with its topic key
UnknownSignerRefused ==
    /\ MessageUnprotectedWithItsKey
    /\ FrameFresh
    /\ SignerUnknown
    /\ last.err = "ErrPubKeyNotFound"

-----------------------------------------------------------------------------
(* The keys of the store, under SpecStore *)

\* key has the shape of an Ed25519 public key
Ed25519PubKeyShape(key) == Len(key) = Ed25519PublicKeySize /\ ~AllZero(key)

\* C21: AddPubKey validates the key and nothing else.  With a key of a wrong
\* length or of zero bytes only it returns an error and leaves the store as it
\* was; with a valid key it succeeds whatever the length of the id; so every
\* key the store holds, after any sequence of AddPubKey, RemovePubKey and
\* ResetPubKeys, has the shape of an Ed25519 public key.
C21_AddPubKeyValidatesKey ==
    /\ \A e \in k.PubKeys : Ed25519PubKeyShape(e.key)
    /\ last.op = "AddPubKey" =>
          IF Ed25519PubKeyShape(last.out)
          THEN /\ last.err = "nil"
               /\ [id |-> last.arg, key |-> last.out] \in k.PubKeys
          ELSE /\ last.err # "nil"
               /\ k.PubKeys = last.pre.PubKeys

\* the all-zero key has been refused on a store that holds entries, one of
\* them under an id that is not IDLen bytes long
C21_Witness ==
    /\ last.op = "AddPubKey"
    /\ last.out = ZeroPub
    /\ last.err # "nil"
    /\ \E e \in k.PubKeys : Len(e.id) # IDLen

\* a valid key has been accepted under the empty id
EmptyIdAccepted ==
    /\ last.op = "AddPubKey"
    /\ last.arg = <<>>
    /\ last.err = "nil"
    /\ GetPubKey(k.PubKeys, <<>>) = Ok(last.out)

-----------------------------------------------------------------------------
(* The random generators, under SpecRandom *)

\* the length the last call of a generator asked the random source for
Requested == IF last.op = "RandomKey" THEN KeyLen ELSE IDLen

\* C22: RandomKey and RandomID return no buffer when the random source fails
\* or delivers fewer bytes than requested: the call panics.  Every returned
\* key has KeyLen bytes and every returned ID IDLen bytes, all of them
\* delivered by the random source.
C22_RandomOrPanic ==
    last.op \in {"RandomKey", "RandomID"} =>
        /\ Len(last.arg) < Requested => (last.err = "panic" /\ last.out = <<>>)
        /\ last.err = "nil" => (Len(last.out) = Requested /\ last.out = last.arg)

\* What holds of both definitions: a full read is returned as delivered, and
\* every returned buffer has the requested length and starts with the bytes
\* delivered.
RandomFullReadReturned ==
    last.op \in {"RandomKey", "RandomID"} =>
        /\ Len(last.arg) = Requested => (last.err = "nil" /\ last.out = last.arg)
        /\ last.err = "nil" =>
              /\ Len(last.out) = Requested
              /\ Take(last.out, Len(last.arg)) = last.arg

\* The definitions made last do as stated, on every read.
CheckedGeneratorsPanic ==
    \A stream \in RandomStreams :
        /\ \A n \in 0 .. (KeyLen - 1) : RandomKey(stream, n) = Fail("panic")
        /\ \A n \in 0 .. (IDLen - 1) : RandomID(stream, n) = Fail("panic")
        /\ RandomKey(stream, KeyLen) = Ok(stream)
        /\ RandomID(stream, IDLen) = Ok(Take(stream, IDLen))

\* a key of zero bytes only has been returned after a read that delivered
\* nothing
ZeroKeyReturned ==
    /\ last.op = "RandomKey"
    /\ last.arg = <<>>
    /\ last.err = "nil"
    /\ last.out = ZeroKey

\* a short read has made a generator panic
ShortReadPanicked ==
    /\ last.op = "RandomID"
    /\ Len(last.arg) = IDLen - 1
    /\ last.err = "panic"

-----------------------------------------------------------------------------
(* The memory of the caller, under Spec *)

\* C23: Encrypt and Decrypt write to no memory of the caller.  Whatever the
\* capacity of the key slice, the bytes of the key and the bytes of its backing
\* array behind the key are after the call what they were before it.
C23_CallerMemoryKept ==
    [][last'.op \in {"Encrypt", "Decrypt"} => heap'.caller = heap.caller]_vars

\* The bytes of the key itself are kept by every call.
KeyBytesKept ==
    [][Take(heap'.caller, KeyLen) = Take(heap.caller, KeyLen)]_vars

\* The buffer keeps its length, and only Encrypt, Decrypt and ProtectSymKey
\* change it.
OnlyAppendWrites ==
    [][/\ Len(heap'.caller) = Len(heap.caller)
       /\ heap'.caller # heap.caller =>
             /\ last'.op \in {"Encrypt", "Decrypt", "ProtectSymKey"}
             /\ last'.err \in {"nil", "ErrNotAuthentic"}
             /\ heap'.caller = last'.arg \o last'.arg]_vars

\* after a call of Encrypt with a slice of the caller's buffer, the bytes
\* behind the key are a copy of the key
KeyCopiedBehindItself ==
    /\ last.op = "Encrypt"
    /\ last.err = "nil"
    /\ last.arg = Take(heap.caller, KeyLen)
    /\ heap.caller = last.arg \o last.arg
    /\ heap.caller # PrivB

-----------------------------------------------------------------------------
(* Repeated calls on one buffer, under SpecReplay *)

\* a step in which UnprotectSymKey is called with the key of the authentic
\* frame in flight, the call before it on record having been one too
CalledAgain ==
    /\ UnprotectedWithItsKey
    /\ now' = now
    /\ frame' = frame
    /\ last'.op = "UnprotectSymKey"
    /\ last'.arg = frame.key

\* C24: UnprotectSymKey keeps no replay state, and as the clock advances its
\* verdict on one authentic buffer only moves forward.  Called again on a
\* buffer it rejected as in the future, it accepts the buffer once the clock
\* has reached the timestamp; called again on a buffer it accepted, it accepts
\* it and returns the same payload while now - MaxDelayDuration has not passed
\* the timestamp; and once it has rejected the buffer as too old, it rejects
\* it as too old in every later call.
C24_VerdictMovesForward ==
    [][CalledAgain =>
          /\ (last.err = "ErrTimestampInFuture" /\ FrameFresh) => last'.err = "nil"
          /\ (last.err = "nil" /\ FrameFresh) => (last'.err = "nil" /\ last'.out = last.out)
          /\ last.err = "nil" => last'.err \in {"nil", "ErrTimestampTooOld"}
          /\ last.err = "ErrTimestampTooOld" => last'.err = "ErrTimestampTooOld"]_vars

\* a buffer accepted at one clock reading has been accepted again, later and
\* still inside the window
C24_Witness ==
    /\ UnprotectedWithItsKey
    /\ last.err = "nil"
    /\ frame.payload # <<>>
    /\ now > frame.at
    /\ FrameFresh

\* a buffer has been rejected as too old, and time has passed since
TooOldOnRecord ==
    /\ UnprotectedWithItsKey
    /\ last.err = "ErrTimestampTooOld"
    /\ now = MaxNow

\* a buffer rejected as in the future is on record when the clock has reached
\* its timestamp
InFutureOnRecord ==
    /\ UnprotectedWithItsKey
    /\ last.err = "ErrTimestampInFuture"
    /\ FrameFresh

====
